---- MODULE Spec2Model ----
(***************************************************************************)
(* A model of the tensorize scheduler of AMOS:                             *)
(*   python/tvm/auto_tensorize/tensorization_phases/scheduling.py          *)
(*                                                                         *)
(* Two components are modelled.                                            *)
(*   - CUDAScheduleGenerator: the explore/exploit loop `get`, the archive  *)
(*     `entries` (a heapq heap of Entry), the `visited` set of record      *)
(*     strings and `feedback`.  Specification: Spec.                       *)
(*   - CUDAScheduleApplier: `apply`, which walks the operations of the     *)
(*     graph in reverse and runs seven primitives per operation.           *)
(*     Specification: SpecApply.                                           *)
(* Random draws (numpy's random module) are nondeterministic choices.      *)
(***************************************************************************)
EXTENDS Integers, Sequences, FiniteSets, TLC

VARIABLES
    entries,    \* CUDAScheduleGenerator.entries: the heapq array of Entry
    visited,    \* CUDAScheduleGenerator.visited: set of record strings
    last,       \* what the most recent get/feedback call did and returned
    genLog,     \* the sub-generator calls made by the most recent call
    nCalls,     \* number of get and feedback calls made so far (bounded)
    dag,        \* CUDAScheduleApplier: target_dag and the schedule compute info
    params,     \* CUDAScheduleApplier.params
    state,      \* CUDAScheduleApplier.state
    sch,        \* the schedule primitives issued on sch by the current apply
    trace,      \* the primitive calls the current apply has made
    pc,         \* where apply stands: phase, index into reversed(op_lst), primitive
    hist,       \* per Params, what the last finished apply with it did
    nApply,     \* number of apply calls made so far (bounded)
    pure        \* the last call of a function or method that keeps no state
                \* between calls: its name, its arguments, what it returned

gvars == <<entries, visited, last, genLog, nCalls>>
avars == <<dag, params, state, sch, trace, pc, hist, nApply>>
pvars == <<pure>>
vars == <<entries, visited, last, genLog, nCalls,
          dag, params, state, sch, trace, pc, hist, nApply, pure>>

----------------------------------------------------------------------------
(* Bounds of the exploration. *)

\* get and feedback calls made on one generator instance
MaxCalls == 4
\* apply calls made on one applier instance
MaxApply == 3
\* the max_trial arguments get is called with
MaxTrials == {0, 1, 2}

(* Costs the caller may feed back (a float in the code; the sign matters   *)
(* to calculate_p, so both signs are present).                             *)
Values == {-2, -1, 1}

----------------------------------------------------------------------------
(* Small helpers on sequences. *)

Range(s) == {s[i] : i \in 1..Len(s)}

RECURSIVE SumSeq(_)
SumSeq(s) == IF s = <<>> THEN 0 ELSE s[1] + SumSeq(Tail(s))

RECURSIVE ProdSeq(_)
ProdSeq(s) == IF s = <<>> THEN 1 ELSE s[1] * ProdSeq(Tail(s))

Min2(a, b) == IF a <= b THEN a ELSE b

RECURSIVE Reverse(_)
Reverse(s) == IF s = <<>> THEN <<>> ELSE Append(Reverse(Tail(s)), s[1])

RECURSIVE Flatten(_)
Flatten(ss) == IF ss = <<>> THEN <<>> ELSE ss[1] \o Flatten(Tail(ss))

----------------------------------------------------------------------------
(* The graph and hardware the generator was built for.  Extents are the    *)
(* int(iv.dom.extent) of the axes init_param_generator walks.              *)

\* extents of the non-reserved spatial axes of output_op
SpatialExtents == <<7, 5>>
\* extents of the non-reserved reduce axes of main_op
ReduceExtents == <<1>>
\* extents of the axes of target_dag.op_lst[-1]
LastOpExtents == <<37>>

reduce_tiling_parts == 3
spatial_tiling_parts == 3
last_op_tiling_parts == 2

\* get_vector_length(target, dtype) of .target
get_vector_length == 4

\* the menu handed to both UnrollStepGenerators
UnrollSteps == <<16, 64, 512, 1500>>

WarpLimit == 32
max_num == 20

----------------------------------------------------------------------------
(* .utils: factor lists.  Sequences are 1-based here, 0-based in Python;   *)
(* a hidden index i of the code is kept as the integer i (0-based) and     *)
(* looked up at position i + 1.                                            *)

RECURSIVE DivisorsFrom(_, _)
DivisorsFrom(n, d) ==
    IF d > n THEN <<>>
    ELSE IF n % d = 0 THEN <<d>> \o DivisorsFrom(n, d + 1)
    ELSE DivisorsFrom(n, d + 1)

\* get_factor_lst(value): the divisors of value, ascending
get_factor_lst(value) == DivisorsFrom(value, 1)

RECURSIVE any_factor_split(_, _)
RECURSIVE SplitWith(_, _, _)
\* the factorizations of value into `number` parts that start with one of ds
SplitWith(ds, value, number) ==
    IF ds = <<>> THEN <<>>
    ELSE LET rest == any_factor_split(value \div ds[1], number - 1)
         IN  [i \in 1..Len(rest) |-> <<ds[1]>> \o rest[i]]
             \o SplitWith(Tail(ds), value, number)

\* any_factor_split(value, number): every ordered factorization
any_factor_split(value, number) ==
    IF number = 1 THEN << <<value>> >>
    ELSE SplitWith(get_factor_lst(value), value, number)

\* 0-based position of x in the sequence s
IndexOf(s, x) == (CHOOSE i \in 1..Len(s) : s[i] = x) - 1

RECURSIVE SortedSeq(_)
\* sorted(S) for a finite set of integers
SortedSeq(S) ==
    IF S = {} THEN <<>>
    ELSE LET m == CHOOSE x \in S : \A y \in S : x <= y
         IN  <<m>> \o SortedSeq(S \ {m})

\* remap_factors(factor_lst): (choices, factor_map, dim, sum_val); the
\* factors seen at the first position, sorted, are the dense index domain.
remap_factors(factor_lst) ==
    LET sorted_factors ==
            SortedSeq({factor_lst[k][1] : k \in 1..Len(factor_lst)})
    IN  [choices    |-> [k \in 1..Len(factor_lst) |->
                            [j \in 1..Len(factor_lst[k]) |->
                                IndexOf(sorted_factors, factor_lst[k][j])]],
         factor_map |-> sorted_factors,
         dim        |-> Len(factor_lst[1]) - 1,
         sum_val    |-> Len(sorted_factors) - 1]

RECURSIVE get_directions(_)
\* get_directions(dim): itertools.product([-1, 0, 1], repeat=dim)
get_directions(dim) ==
    IF dim = 0 THEN << <<>> >>
    ELSE LET rest == get_directions(dim - 1)
             With(v) == [i \in 1..Len(rest) |-> <<v>> \o rest[i]]
         IN  With(-1) \o With(0) \o With(1)

----------------------------------------------------------------------------
(* The three parameter generators.  A generator is a record; `kind` tells  *)
(* the class.                                                              *)

SplitFactorGenerator(extent, parts) ==
    LET r == remap_factors(any_factor_split(extent, parts))
    IN  [kind |-> "split", choices |-> r.choices, factor_map |-> r.factor_map,
         sum_val |-> r.sum_val, directions |-> get_directions(r.dim)]

VectorizeLengthGenerator ==
    LET lengths == get_factor_lst(get_vector_length)
    IN  [kind |-> "menu", choices |-> [i \in 1..Len(lengths) |-> i - 1],
         factor_map |-> lengths, sum_val |-> 0, directions |-> <<0, 1, -1>>]

UnrollStepGenerator(steps) ==
    [kind |-> "menu", choices |-> [i \in 1..Len(steps) |-> i - 1],
     factor_map |-> steps, sum_val |-> 0, directions |-> <<0, 1, -1>>]

\* a move that adds the direction and leaves the last index as it was
move_towards_direction_KeepLast(gen, init, d) ==
    IF gen.kind = "split"
    THEN [i \in 1..Len(init) |-> IF i <= Len(d) THEN init[i] + d[i]
                                 ELSE init[i]]
    ELSE init + d

\* SplitFactorGenerator.move_towards_direction / the menu generators' init + d
move_towards_direction(gen, init, d) ==
    IF gen.kind = "split"
    THEN LET ret == [i \in 1..Len(d) |-> init[i] + d[i]]
         IN  Append(ret, gen.sum_val - SumSeq(ret))
    ELSE init + d

\* valid(init) of the three generators
GenValid(gen, init) ==
    IF gen.kind = "split"
    THEN \A i \in 1..Len(init) : 0 <= init[i] /\ init[i] <= gen.sum_val
    ELSE 0 <= init /\ init < Len(gen.factor_map)

map_from_hidden(gen, init) ==
    IF gen.kind = "split"
    THEN [i \in 1..Len(init) |-> gen.factor_map[init[i] + 1]]
    ELSE gen.factor_map[init + 1]

\* a map_to_hidden that lists the indices of a split from the last factor to
\* the first
map_to_hidden_LastFirst(gen, factors) ==
    IF gen.kind = "split"
    THEN [i \in 1..Len(factors) |->
             IndexOf(gen.factor_map, factors[Len(factors) + 1 - i])]
    ELSE IndexOf(gen.factor_map, factors)

map_to_hidden(gen, factors) ==
    IF gen.kind = "split"
    THEN [i \in 1..Len(factors) |-> IndexOf(gen.factor_map, factors[i])]
    ELSE IndexOf(gen.factor_map, factors)


----------------------------------------------------------------------------
(* QLearningParamGenerator (..search): get and the Q-table rows.           *)

RECURSIVE RowFrom(_, _, _)
RowFrom(gen, init, ds) ==
    IF ds = <<>> THEN <<>>
    ELSE LET des == move_towards_direction(gen, init, ds[1])
         IN  (IF GenValid(gen, des) THEN << [d |-> ds[1], des |-> des] >>
              ELSE <<>>) \o RowFrom(gen, init, Tail(ds))

\* Q_table[init]: the (direction, destination) pairs of the valid moves
\* from init, in the order of gen.directions
QRow(gen, init) == RowFrom(gen, init, gen.directions)

\* The zero direction of a generator: (0, ..., 0) or 0.
ZeroDirection(gen) ==
    IF gen.kind = "split"
    THEN [i \in 1..(Len(gen.choices[1]) - 1) |-> 0]
    ELSE 0

\* The outcomes of np.random.randint(0, len(choices)) that are explored:
\* the first two choices of a split generator, the first entry of a menu.
ExploredInits(gen) ==
    IF gen.kind = "split" THEN 1..Min2(Len(gen.choices), 2) ELSE {1}

\* The direction draws that are explored: the zero direction of a row.
ExploredMoves(gen, init) ==
    {m \in Range(QRow(gen, init)) : m.d = ZeroDirection(gen)}

\* QLearningParamGenerator.get(hint, policy): the (choice, direction) pairs
\* it can return.  hint is <<>> for None and <<h>> for a given hint h.
GenGet(gen, hint) ==
    LET inits == IF hint = <<>>
                 THEN {gen.choices[r] : r \in ExploredInits(gen)}
                 ELSE {map_to_hidden(gen, hint[1])}
    IN  UNION {{<<map_from_hidden(gen, m.des), m.d>> :
                    m \in ExploredMoves(gen, init)} : init \in inits}


----------------------------------------------------------------------------
(* Params, its string form, Entry.                                         *)

Params(vectorize, spatial_factors, reduce_factors, last_factors, output_unroll_step, last_unroll_step) ==
    [vectorize |-> vectorize, spatial_factors |-> spatial_factors,
     reduce_factors |-> reduce_factors, last_factors |-> last_factors,
     output_unroll_step |-> output_unroll_step,
     last_unroll_step |-> last_unroll_step]

\* empty_params(): None is the empty tuple here
empty_params == Params(<<>>, <<>>, <<>>, <<>>, <<>>, <<>>)

RECURSIVE JoinStr(_)
\* ", ".join(parts)
JoinStr(parts) ==
    IF parts = <<>> THEN ""
    ELSE IF Len(parts) = 1 THEN parts[1]
    ELSE parts[1] \o ", " \o JoinStr(Tail(parts))

\* json.dumps of a list whose items are already dumped
JList(parts) == "[" \o JoinStr(parts) \o "]"
JInts(s) == JList([i \in 1..Len(s) |-> ToString(s[i])])
\* a (choice, direction) pair of a menu generator: two integers
JMenuPair(p) == IF p = <<>> THEN "null" ELSE JInts(p)
\* a (choice, direction) pair of a split generator: two integer lists
JSplitPair(p) == JList(<<JInts(p[1]), JInts(p[2])>>)
JSplitPairs(ps) == JList([i \in 1..Len(ps) |-> JSplitPair(ps[i])])

\* Params.__str__: json.dumps(self.to_json()), keys in to_json's order
ParamsStr(r) ==
    "{\"vectorize\": " \o JMenuPair(r.vectorize)
    \o ", \"spatial_factors\": " \o JSplitPairs(r.spatial_factors)
    \o ", \"reduce_factors\": " \o JSplitPairs(r.reduce_factors)
    \o ", \"last_factors\": " \o JSplitPairs(r.last_factors)
    \o ", \"output_unroll_step\": " \o JMenuPair(r.output_unroll_step)
    \o ", \"last_unroll_step\": " \o JMenuPair(r.last_unroll_step) \o "}"

\* a dict as the sequence of its (key, value) items in insertion order;
\* obj[key]
DictGet(obj, key) == obj[CHOOSE i \in 1..Len(obj) : obj[i][1] = key][2]

\* a to_json that files the two unroll steps under each other's key
to_json_SwappedUnroll(self) ==
    << <<"vectorize", self.vectorize>>,
       <<"spatial_factors", self.spatial_factors>>,
       <<"reduce_factors", self.reduce_factors>>,
       <<"last_factors", self.last_factors>>,
       <<"output_unroll_step", self.last_unroll_step>>,
       <<"last_unroll_step", self.output_unroll_step>> >>

\* Params.to_json
to_json(self) ==
    << <<"vectorize", self.vectorize>>,
       <<"spatial_factors", self.spatial_factors>>,
       <<"reduce_factors", self.reduce_factors>>,
       <<"last_factors", self.last_factors>>,
       <<"output_unroll_step", self.output_unroll_step>>,
       <<"last_unroll_step", self.last_unroll_step>> >>

\* Params.from_json: self after the six assignments
from_json(self, obj) ==
    [self EXCEPT !.vectorize = DictGet(obj, "vectorize"),
                 !.spatial_factors = DictGet(obj, "spatial_factors"),
                 !.reduce_factors = DictGet(obj, "reduce_factors"),
                 !.last_factors = DictGet(obj, "last_factors"),
                 !.output_unroll_step = DictGet(obj, "output_unroll_step"),
                 !.last_unroll_step = DictGet(obj, "last_unroll_step")]

\* CUDAScheduleGenerator.record_from_json, record_cls being Params
record_from_json(obj) ==
    Params(DictGet(obj, "vectorize"), DictGet(obj, "spatial_factors"),
           DictGet(obj, "reduce_factors"), DictGet(obj, "last_factors"),
           DictGet(obj, "output_unroll_step"),
           DictGet(obj, "last_unroll_step"))

\* Entry(record, value) of ..search
Entry(record, value) == [record |-> record, value |-> value]
NoEntry == Entry(empty_params, 0)

\* Entry.__lt__: reversed on value, so that heapq's min-heap keeps the
\* entry of the largest value first
EntryLt(a, b) == a.value > b.value

----------------------------------------------------------------------------
(* heapq on the archive.                                                   *)

RECURSIVE SiftUp(_, _, _)
\* heapq._siftdown(heap, 0, pos): carry newitem towards the root while it
\* is smaller than its parent (positions are 1-based here)
SiftUp(heap, pos, newitem) ==
    IF pos > 1 /\ EntryLt(newitem, heap[pos \div 2])
    THEN SiftUp([heap EXCEPT ![pos] = heap[pos \div 2]], pos \div 2, newitem)
    ELSE [heap EXCEPT ![pos] = newitem]

\* a push that appends and does not restore the heap order
heappush_NoSift(heap, item) == Append(heap, item)

\* a push into an archive that keeps at most two entries
heappush_KeepTwo(heap, item) ==
    IF Len(heap) >= 2 THEN heap
    ELSE SiftUp(Append(heap, item), Len(heap) + 1, item)

\* heapq.heappush(heap, item)
heappush(heap, item) == SiftUp(Append(heap, item), Len(heap) + 1, item)

RECURSIVE InsertDesc(_, _)
\* x goes before the first element that is smaller than x
InsertDesc(sorted, x) ==
    IF sorted = <<>> THEN <<x>>
    ELSE IF EntryLt(sorted[1], x) THEN <<x>> \o sorted
    ELSE <<sorted[1]>> \o InsertDesc(Tail(sorted), x)

RECURSIVE SortedDesc(_, _)
\* sorted(iterable, reverse=True): stable, largest (under __lt__) first
SortedDesc(done, todo) ==
    IF todo = <<>> THEN done
    ELSE SortedDesc(InsertDesc(done, todo[1]), Tail(todo))

\* heapq.nlargest(n, iterable)
nlargest(n, iterable) ==
    SubSeq(SortedDesc(<<>>, iterable), 1, Min2(n, Len(iterable)))


----------------------------------------------------------------------------
(* CUDAScheduleGenerator.                                                  *)

\* init_param_generator: the sub-generators
reduce_splits ==
    [i \in 1..Len(ReduceExtents) |->
        SplitFactorGenerator(ReduceExtents[i], reduce_tiling_parts)]
spatial_splits ==
    [i \in 1..Len(SpatialExtents) |->
        SplitFactorGenerator(SpatialExtents[i], spatial_tiling_parts)]
last_splits ==
    << SplitFactorGenerator(ProdSeq(LastOpExtents), last_op_tiling_parts) >>
vectorize == VectorizeLengthGenerator
unroll_output == UnrollStepGenerator(UnrollSteps)
unroll_last == UnrollStepGenerator(UnrollSteps)

RECURSIVE WarpProduct(_)
WarpProduct(factors) ==
    IF factors = <<>> THEN 1
    ELSE factors[1][1][2] * WarpProduct(Tail(factors))

\* valid with each spatial tuple checked on its own instead of the product
valid_PerTuple(record) ==
    IF \E i \in 1..Len(record.spatial_factors) :
            record.spatial_factors[i][1][2] > WarpLimit THEN FALSE
    ELSE IF record.last_factors[1][1][2] > WarpLimit THEN FALSE
    ELSE TRUE

\* CUDAScheduleGenerator.valid(record)
valid(record) ==
    IF WarpProduct(record.spatial_factors) > WarpLimit THEN FALSE
    ELSE IF record.last_factors[1][1][2] > WarpLimit THEN FALSE
    ELSE TRUE

\* calculate_p(x, best) = exp((x - best) / 2 * (best + 1e-5)); this is
\* 200000 times the exponent, which has the exponent's sign
calculate_p_exponent(x, best) == (x - best) * (best * 100000 + 1)

\* np.random.random() < p, with random() in [0, 1) and p = exp(exponent):
\* it can be true always (p > 0), and false only when p < 1
CanAccept(x, best) == TRUE
CanReject(x, best) == calculate_p_exponent(x, best) < 0

NoSa == [kind |-> "none", entry |-> NoEntry, i |-> -1, choice |-> -1]

RECURSIVE SaDraws(_, _)
\* the loop of sa_select_entry from iteration i (0-based) on
SaDraws(cand, i) ==
    LET best_value == cand[1].value
        num_cand == Len(cand)
    IN  IF i = max_num
        THEN {[kind |-> "default", entry |-> cand[1], i |-> i, choice |-> -1]}
        ELSE {IF i < num_cand
              THEN [kind |-> "accepted", entry |-> cand[i + 1],
                    i |-> i, choice |-> choice]
              ELSE [kind |-> "IndexError", entry |-> NoEntry,
                    i |-> i, choice |-> -1] :
                  choice \in {c \in 0..(num_cand - 1) :
                                CanAccept(cand[c + 1].value, best_value)}}
             \cup (IF \E c \in 0..(num_cand - 1) :
                         CanReject(cand[c + 1].value, best_value)
                   THEN SaDraws(cand, i + 1) ELSE {})

\* the candidate list of sa_select_entry
SaCand(heap) == nlargest(Min2(max_num, Len(heap)), heap)

\* sa_select_entry(): every outcome the random draws allow
sa_select_entry(heap) == SaDraws(SaCand(heap), 0)

RECURSIVE SeqProduct(_)
\* the sequences that take their i-th item from the i-th set
SeqProduct(sets) ==
    IF sets = <<>> THEN {<<>>}
    ELSE {<<x>> \o rest : x \in sets[1], rest \in SeqProduct(Tail(sets))}

\* The hint for the i-th generator of a list, zipped with the factors of an
\* entry's record; <<>> when no entry guides the draw.
HintOf(hints, i) == IF hints = <<>> THEN <<>> ELSE <<hints[i][1]>>

\* [gen.get(...) for gen, x in zip(gens, factors)] / [gen.get() for gen in gens]
ListGet(gens, hints) ==
    LET n == IF hints = <<>> THEN Len(gens) ELSE Min2(Len(gens), Len(hints))
    IN  SeqProduct([i \in 1..n |-> GenGet(gens[i], HintOf(hints, i))])

\* record_cls(...) built from every sub-generator's get; entry is NoEntry
\* for the all-random candidate
Candidates(entry) ==
    LET guided == entry # NoEntry
        r == entry.record
    IN  {Params(v, sp, rd, ls, uo, ul) :
            v  \in GenGet(vectorize, IF guided THEN <<r.vectorize[1]>> ELSE <<>>),
            sp \in ListGet(spatial_splits, IF guided THEN r.spatial_factors ELSE <<>>),
            rd \in ListGet(reduce_splits, IF guided THEN r.reduce_factors ELSE <<>>),
            ls \in ListGet(last_splits, IF guided THEN r.last_factors ELSE <<>>),
            uo \in GenGet(unroll_output,
                          IF guided THEN <<r.output_unroll_step[1]>> ELSE <<>>),
            ul \in GenGet(unroll_last,
                          IF guided THEN <<r.last_unroll_step[1]>> ELSE <<>>)}


\* The sub-generator calls of one candidate, in the order Python evaluates
\* the arguments of record_cls(...); entry guides the hints as in Candidates.
GetCalls(entry) ==
    LET guided == entry # NoEntry
        r == entry.record
        Call(name, k, hint) ==
            [gen |-> name, idx |-> k, call |-> "get", args |-> hint]
        ListCalls(name, gens, factors) ==
            [i \in 1..(IF guided THEN Min2(Len(gens), Len(factors)) ELSE Len(gens))
                |-> Call(name, i, HintOf(IF guided THEN factors ELSE <<>>, i))]
    IN  << Call("vectorize", 0, IF guided THEN <<r.vectorize[1]>> ELSE <<>>) >>
        \o ListCalls("spatial_splits", spatial_splits, r.spatial_factors)
        \o ListCalls("reduce_splits", reduce_splits, r.reduce_factors)
        \o ListCalls("last_splits", last_splits, r.last_factors)
        \o << Call("unroll_output", 0,
                   IF guided THEN <<r.output_unroll_step[1]>> ELSE <<>>),
              Call("unroll_last", 0,
                   IF guided THEN <<r.last_unroll_step[1]>> ELSE <<>>) >>

\* One pass through the body of get's for loop, up to the duplicate check:
\* a candidate record (with its string), a return, or an exception.
Trial(t, rec, sa) == [t |-> t, rec |-> rec, str |-> ParamsStr(rec), sa |-> sa]

RandomTrials == {Trial("cand", c, NoSa) : c \in Candidates(NoEntry)}

GuidedTrials(heap) ==
    UNION {IF o.kind = "IndexError"
           THEN {Trial("sa_IndexError", empty_params, o)}
           ELSE {Trial("cand", c, o) : c \in Candidates(o.entry)} :
               o \in sa_select_entry(heap)}

Trials(heap, policy) ==
    IF policy = "random" \/ heap = <<>> THEN RandomTrials
    ELSE IF policy = "q"
    THEN GuidedTrials(heap)     \* self.greedy() is true
         \cup RandomTrials      \* self.greedy() is false
    ELSE IF policy = "greedy"
    THEN {Trial("greedy", empty_params, NoSa)}
    ELSE {Trial("unknown_policy", empty_params, NoSa)}

\* line 436 without the visited test
Passes_NoDuplicateCheck(seen, repeat, t) == valid(t.rec)

\* line 436-437: the candidate passes the duplicate check and valid()
Passes(seen, repeat, t) == (repeat \/ t.str \notin seen) /\ valid(t.rec)

\* What the model remembers of the rejected candidates of a call: the
\* first one, and whether all of them had the same string.
NoCarry == [first |-> empty_params, uniform |-> TRUE]

CarryOn(c, rec) ==
    IF c.first = empty_params THEN [first |-> rec, uniform |-> TRUE]
    ELSE [first |-> c.first, uniform |-> c.uniform /\ rec = c.first]

Outcome(kind, rec, value, carry, sa, calls, dup) ==
    [kind |-> kind, rec |-> rec, value |-> value, first |-> carry.first,
     uniform |-> carry.uniform, sa |-> sa, calls |-> calls, dup |-> dup]

\* How trial t ends the call, if it does
Ending(heap, seen, repeat, t) ==
    IF t.t = "cand"
    THEN IF Passes(seen, repeat, t)
         THEN {Outcome("loop", t.rec, 0, NoCarry, t.sa, GetCalls(t.sa.entry),
                       t.str \in seen)}
         ELSE {}
    ELSE IF t.t = "greedy"
    THEN {Outcome("greedy", heap[1].record, heap[1].value, NoCarry, NoSa,
                  <<>>, FALSE)}
    ELSE {Outcome(t.t, empty_params, 0, NoCarry, t.sa, <<>>, FALSE)}

\* line 440: return self.entries[0] after the loop.  The rejected candidates
\* are remembered only where the archive is empty and nothing is returned.
Fallback(heap, carry) ==
    IF heap = <<>>
    THEN Outcome("fallback_IndexError", empty_params, 0, carry, NoSa,
                 <<>>, FALSE)
    ELSE Outcome("fallback", heap[1].record, heap[1].value, NoCarry, NoSa,
                 <<>>, FALSE)

\* CUDAScheduleGenerator.get(policy, repeat, max_trial): every outcome.
\* A rejected candidate changes nothing, so every trial draws from the same
\* set; the call ends in a trial that returns or raises, or after max_trial
\* rejected candidates.
GetOutcomes(heap, seen, policy, repeat, max_trial) ==
    LET trials == Trials(heap, policy)
        rejected == {t.rec : t \in {u \in trials :
                        u.t = "cand" /\ ~Passes(seen, repeat, u)}}
        RECURSIVE Carries(_)
        Carries(i) ==
            IF i = 0 THEN {NoCarry}
            ELSE {CarryOn(c, rec) : c \in Carries(i - 1), rec \in rejected}
    IN  (IF max_trial = 0 THEN {}
         ELSE UNION {Ending(heap, seen, repeat, t) : t \in trials})
        \cup {Fallback(heap, c) : c \in Carries(max_trial)}

\* feedback with the two unroll generators served before the splits
FeedbackCalls_UnrollFirst(record, value) ==
    LET Call(name, k, pair) ==
            [gen |-> name, idx |-> k, call |-> "feedback",
             args |-> <<pair[1], pair[2], value>>]
        ListCalls(name, gens, factors) ==
            [i \in 1..Min2(Len(gens), Len(factors)) |-> Call(name, i, factors[i])]
    IN  << Call("vectorize", 0, record.vectorize),
           Call("unroll_output", 0, record.output_unroll_step),
           Call("unroll_last", 0, record.last_unroll_step) >>
        \o ListCalls("spatial_splits", spatial_splits, record.spatial_factors)
        \o ListCalls("reduce_splits", reduce_splits, record.reduce_factors)
        \o ListCalls("last_splits", last_splits, record.last_factors)

\* the sub-generator feedback calls of feedback(record, value), in order
FeedbackCalls(record, value) ==
    LET Call(name, k, pair) ==
            [gen |-> name, idx |-> k, call |-> "feedback",
             args |-> <<pair[1], pair[2], value>>]
        ListCalls(name, gens, factors) ==
            [i \in 1..Min2(Len(gens), Len(factors)) |-> Call(name, i, factors[i])]
    IN  << Call("vectorize", 0, record.vectorize) >>
        \o ListCalls("spatial_splits", spatial_splits, record.spatial_factors)
        \o ListCalls("reduce_splits", reduce_splits, record.reduce_factors)
        \o ListCalls("last_splits", last_splits, record.last_factors)
        \o << Call("unroll_output", 0, record.output_unroll_step),
              Call("unroll_last", 0, record.last_unroll_step) >>

Policies == {"random", "q", "greedy", "other"}

NoCall ==
    [op |-> "init", policy |-> "", repeat |-> FALSE, kind |-> "init",
     rec |-> empty_params, value |-> 0, first |-> empty_params,
     uniform |-> TRUE, sa |-> NoSa, dup |-> FALSE]

GenInit ==
    /\ entries = <<>>
    /\ visited = {}
    /\ last = NoCall
    /\ genLog = <<>>
    /\ nCalls = 0

\* a visited set that holds the string of the latest returned record only
VisitedAfter_OnlyLatest(seen, o) ==
    IF o.kind = "loop" THEN {ParamsStr(o.rec)} ELSE seen

\* self.visited after a get that ended in outcome o: line 438 adds the
\* string of the record the candidate loop returns, nothing else is added
VisitedAfter(seen, o) ==
    IF o.kind = "loop" THEN seen \cup {ParamsStr(o.rec)} ELSE seen

\* get(policy, repeat, max_trial)
Get(policy, repeat, max_trial) ==
    /\ nCalls < MaxCalls
    /\ \E o \in GetOutcomes(entries, visited, policy, repeat, max_trial) :
        /\ last' = [op |-> "get", policy |-> policy, repeat |-> repeat,
                    kind |-> o.kind, rec |-> o.rec, value |-> o.value,
                    first |-> o.first, uniform |-> o.uniform, sa |-> o.sa,
                    dup |-> o.dup]
        /\ genLog' = o.calls
        /\ visited' = VisitedAfter(visited, o)
    /\ nCalls' = nCalls + 1
    /\ UNCHANGED entries
    /\ UNCHANGED <<avars, pvars>>

\* feedback(record, value)
Feedback(record, value) ==
    /\ nCalls < MaxCalls
    /\ entries' = heappush(entries, Entry(record, value))
    /\ genLog' = FeedbackCalls(record, value)
    /\ last' = [op |-> "feedback", policy |-> "", repeat |-> FALSE,
                kind |-> "feedback", rec |-> record, value |-> value,
                first |-> empty_params, uniform |-> TRUE, sa |-> NoSa,
                dup |-> FALSE]
    /\ nCalls' = nCalls + 1
    /\ UNCHANGED visited
    /\ UNCHANGED <<avars, pvars>>

GetStep ==
    \E policy \in Policies, repeat \in BOOLEAN, max_trial \in MaxTrials :
        Get(policy, repeat, max_trial)

\* The caller feeds back the record the last call handed it (get), or
\* feeds the same record back again (a repeated measurement).
FeedbackStep ==
    /\ last.rec # empty_params
    /\ \E value \in Values : Feedback(last.rec, value)

GenNext == GetStep \/ FeedbackStep



----------------------------------------------------------------------------
(* CUDAScheduleApplier: the graph, the schedule and the scheduling state.  *)
(* An operation object is named x, its position in op_lst (0-based), so    *)
(* that X(op) is stage x; op_id is the number apply passes along with it.  *)

\* A loop axis (IterVar) of a stage: its operation, how it was derived and
\* its extent.
Axis(op, name, ext) == [op |-> op, name |-> name, ext |-> ext]

\* sch[X(op)].op.axis and sch[X(op)].op.reduce_axis
SpatialAxes(g, x) ==
    LET ext == g.op_lst[x + 1].axis
    IN  [i \in 1..Len(ext) |-> Axis(x, "s" \o ToString(i - 1), ext[i])]
ReduceAxes(g, x) ==
    LET ext == g.op_lst[x + 1].reduce_axis
    IN  [i \in 1..Len(ext) |-> Axis(x, "r" \o ToString(i - 1), ext[i])]

CeilDiv(a, b) == (a + b - 1) \div b

\* stage.split(iv, factor=f): (outer, inner)
SplitFactor(iv, f) ==
    << Axis(iv.op, iv.name \o ".o", CeilDiv(iv.ext, f)),
       Axis(iv.op, iv.name \o ".i", f) >>
\* stage.split(iv, nparts=n): (outer, inner)
SplitNparts(iv, n) ==
    << Axis(iv.op, iv.name \o ".o", n),
       Axis(iv.op, iv.name \o ".i", CeilDiv(iv.ext, n)) >>

RECURSIVE JoinNames(_)
JoinNames(axes) ==
    IF axes = <<>> THEN ""
    ELSE IF Len(axes) = 1 THEN axes[1].name
    ELSE axes[1].name \o "," \o JoinNames(Tail(axes))

RECURSIVE ExtProduct(_)
ExtProduct(axes) ==
    IF axes = <<>> THEN 1 ELSE axes[1].ext * ExtProduct(Tail(axes))

\* stage.fuse(*axes)
Fuse(op, axes) == Axis(op, "fuse(" \o JoinNames(axes) \o ")", ExtProduct(axes))

\* one schedule primitive issued on sch
\* stage: "op" for sch[X(op)], "cache" for the stage cache_read made for op
SchCall(call, op, stage, axes, n, tag) ==
    [call |-> call, op |-> op, stage |-> stage, axes |-> axes, n |-> n,
     tag |-> tag]

\* Python slices and negative indices, n >= 0
\* seq[:-n]
SliceButLast(seq, n) ==
    IF n = 0 \/ n >= Len(seq) THEN <<>> ELSE SubSeq(seq, 1, Len(seq) - n)
\* seq[-n:]
SliceLast(seq, n) ==
    IF n = 0 \/ n >= Len(seq) THEN seq ELSE SubSeq(seq, Len(seq) - n + 1, Len(seq))
\* seq[-n] exists
HasNegIndex(seq, n) == IF n = 0 THEN Len(seq) > 0 ELSE n <= Len(seq)
\* seq[-n]
NegIndex(seq, n) == IF n = 0 THEN seq[1] ELSE seq[Len(seq) - n + 1]

\* State(inlined, main_op_reduce_axis, output_op_axis, last_op_axis,
\* tensorize_iter)
State(inlined, main_op_reduce_axis, output_op_axis, last_op_axis, tensorize_iter) ==
    [inlined |-> inlined, main_op_reduce_axis |-> main_op_reduce_axis,
     output_op_axis |-> output_op_axis, last_op_axis |-> last_op_axis,
     tensorize_iter |-> tensorize_iter]

\* empty_state(): State(set(), [], [], [], {})
empty_state == State({}, <<>>, <<>>, <<>>, <<>>)

\* d[k] = v on a dict kept as a function
DictPut(d, k, v) == [x \in (DOMAIN d) \cup {k} |-> IF x = k THEN v ELSE d[x]]

\* The result of a step: an exception (or ""), the state and the schedule log
\* as the step leaves them.
Result(err, st, log) == [err |-> err, st |-> st, sch |-> log]

\* One operation of target_dag.op_lst.  compute: isinstance(op, ComputeOp);
\* role: operation_role[op], "none" when op is not in operation_role;
\* in_feed, feeds: op in feed_graph, feed_graph[op] (op ids);
\* reserve: reserve_inner_axis_count[op].
Op(name, compute, role, axis, reduce_axis, in_feed, feeds, reserve) ==
    [name |-> name, compute |-> compute, role |-> role, axis |-> axis,
     reduce_axis |-> reduce_axis, in_feed |-> in_feed, feeds |-> feeds,
     reserve |-> reserve]

PlaceholderOp(name, feeds) == Op(name, FALSE, "none", <<>>, <<>>, TRUE, feeds, 0)

\* main_op_id and output_op_id: the last position in op_lst of the operation
\* looked for, else 0; a position that holds the operation `other` is not
\* looked at (the elif of the loop).
RECURSIVE LastPosition(_, _, _, _, _)
LastPosition(op_lst_len, i, wanted, other, found) ==
    IF i >= op_lst_len THEN found
    ELSE LastPosition(op_lst_len, i + 1, wanted, other,
                      IF i # other /\ i = wanted THEN i ELSE found)

\* no operation object
NoOp == -1

\* The schedule compute info the applier is built from.
Dag(op_lst, main_op, output_op, reserve_reduce, scope) ==
    [op_lst |-> op_lst, main_op |-> main_op, output_op |-> output_op,
     main_op_id |-> LastPosition(Len(op_lst), 0, main_op, NoOp, 0),
     output_op_id |-> LastPosition(Len(op_lst), 0, output_op, main_op, 0),
     main_op_reserve_reduce_axis |-> reserve_reduce,
     instruction_scope |-> scope]

\* A padded, bias-added matrix product matched to a warp-scope intrinsic:
\* the extents the generator's splitters are built from.
PaddedGraph ==
    Dag(<< PlaceholderOp("A", <<1>>),
           Op("pad", TRUE, "none", <<7, 2>>, <<>>, TRUE, <<2>>, 0),
           Op("load_a", TRUE, "load", <<7, 2, 2>>, <<>>, TRUE, <<5>>, 2),
           PlaceholderOp("B", <<4>>),
           Op("load_b", TRUE, "load", <<5, 2, 2>>, <<>>, TRUE, <<5>>, 2),
           Op("mma", TRUE, "main", <<7, 5, 2, 2>>, <<1, 2>>, TRUE, <<6>>, 2),
           Op("store", TRUE, "output", <<7, 5, 2, 2>>, <<>>, TRUE, <<8>>, 2),
           PlaceholderOp("bias", <<8>>),
           Op("add", TRUE, "none", <<37>>, <<>>, FALSE, <<>>, 0) >>,
        5, 6, {1}, "warp")

\* The output operation is the last operation; thread-scope intrinsic.
BareGraph ==
    Dag(<< PlaceholderOp("A", <<1>>),
           Op("load_a", TRUE, "load", <<7, 2, 2>>, <<>>, TRUE, <<2>>, 2),
           Op("mma", TRUE, "main", <<7, 5, 2, 2>>, <<1, 2>>, TRUE, <<3>>, 2),
           Op("store", TRUE, "output", <<7, 5, 2, 2>>, <<>>, FALSE, <<>>, 2) >>,
        2, 3, {1}, "thread")

\* Every reduce axis of the main operation is reserved by the intrinsic.
NoSplitReduceGraph ==
    Dag(<< PlaceholderOp("A", <<1>>),
           Op("load_a", TRUE, "load", <<7, 2, 2>>, <<>>, TRUE, <<2>>, 2),
           Op("mma", TRUE, "main", <<7, 5, 2, 2>>, <<2>>, TRUE, <<3>>, 2),
           Op("store", TRUE, "output", <<7, 5, 2, 2>>, <<>>, TRUE, <<4>>, 2),
           Op("relu", TRUE, "none", <<37>>, <<>>, FALSE, <<>>, 0) >>,
        2, 3, {0}, "warp")

\* The applier's main_op is not an operation of the graph and no operation
\* has the main role.
NoMainGraph ==
    Dag(<< PlaceholderOp("A", <<1>>),
           Op("load_a", TRUE, "load", <<7, 2, 2>>, <<>>, TRUE, <<2>>, 2),
           Op("store", TRUE, "output", <<7, 5, 2, 2>>, <<>>, TRUE, <<3>>, 2),
           Op("relu", TRUE, "none", <<37>>, <<>>, FALSE, <<>>, 0) >>,
        NoOp, 2, {1}, "warp")

\* The intrinsic reserves no spatial axis and no reduce axis of the main
\* operation.
ReservedAbsentGraph ==
    Dag(<< PlaceholderOp("A", <<1>>),
           Op("load_a", TRUE, "load", <<7, 2, 2>>, <<>>, TRUE, <<2>>, 2),
           Op("mma", TRUE, "main", <<7, 5, 2, 2>>, <<1>>, TRUE, <<3>>, 0),
           Op("store", TRUE, "output", <<7, 5, 2, 2>>, <<>>, TRUE, <<4>>, 2),
           Op("relu", TRUE, "none", <<37>>, <<>>, FALSE, <<>>, 0) >>,
        2, 3, {}, "warp")

\* A capsule of the recipe as CUDAScheduleGenerator.__init__ sees it: op is
\* nodes[name][0].op (a position in op_lst), reads is `name in read_graph`,
\* feeds is `name in feed_graph`, main is `name == recipe.main_capsule_name`.
Capsule(op, reads, feeds, main) ==
    [op |-> op, reads |-> reads, feeds |-> feeds, main |-> main]

\* the role the loop over capsule_names gives to a capsule's operation
CapsuleRole(c) ==
    IF ~c.reads THEN "load"
    ELSE IF ~c.feeds THEN "output"
    ELSE IF c.main THEN "main"
    ELSE "none"

\* operation_role after the loop, "none" for an operation it does not hold
OperationRole(capsules, x) ==
    IF \E i \in 1..Len(capsules) : capsules[i].op = x
    THEN CapsuleRole(capsules[CHOOSE i \in 1..Len(capsules) :
                                  capsules[i].op = x])
    ELSE "none"

RECURSIVE OutputOpOf(_)
\* self.output_op after the loop: the operation of the last capsule that was
\* given the output role
OutputOpOf(capsules) ==
    IF capsules = <<>> THEN NoOp
    ELSE LET c == capsules[Len(capsules)]
         IN  IF CapsuleRole(c) = "output" THEN c.op
             ELSE OutputOpOf(SubSeq(capsules, 1, Len(capsules) - 1))

\* The schedule compute info CUDAScheduleGenerator.__init__ builds for the
\* operations op_lst and the capsules of the recipe, in capsule_names order.
GeneratorDag(op_lst, capsules, reserve_reduce, scope) ==
    Dag([k \in 1..Len(op_lst) |->
            [op_lst[k] EXCEPT !.role = OperationRole(capsules, k - 1)]],
        capsules[CHOOSE i \in 1..Len(capsules) : capsules[i].main].op,
        OutputOpOf(capsules), reserve_reduce, scope)

\* The main capsule is the last capsule of the intrinsic: nothing in the
\* recipe reads it, so the loop gives it the output role.
MainIsSinkGraph ==
    GeneratorDag(
        << PlaceholderOp("A", <<1>>),
           Op("load_a", TRUE, "", <<7, 2, 2>>, <<>>, TRUE, <<2>>, 2),
           Op("mma", TRUE, "", <<7, 5, 2, 2>>, <<1, 2>>, TRUE, <<3>>, 2),
           Op("relu", TRUE, "", <<37>>, <<>>, FALSE, <<>>, 0) >>,
        << Capsule(1, FALSE, TRUE, FALSE), Capsule(2, TRUE, FALSE, TRUE) >>,
        {1}, "warp")

\* The intrinsic has two capsules nothing reads, store_c and store_d; the
\* recipe lists store_d first, the graph lists store_c first.
TwoOutputGraph ==
    GeneratorDag(
        << PlaceholderOp("A", <<1>>),
           Op("load_a", TRUE, "", <<7, 2, 2>>, <<>>, TRUE, <<2>>, 2),
           Op("mma", TRUE, "", <<7, 5, 2, 2>>, <<1, 2>>, TRUE, <<3, 4>>, 2),
           Op("store_c", TRUE, "", <<7, 5, 2, 2>>, <<>>, TRUE, <<5>>, 2),
           Op("store_d", TRUE, "", <<7, 5, 2, 2>>, <<>>, TRUE, <<5>>, 2),
           Op("add", TRUE, "", <<37>>, <<>>, FALSE, <<>>, 0) >>,
        << Capsule(1, FALSE, TRUE, FALSE), Capsule(2, TRUE, TRUE, TRUE),
           Capsule(4, TRUE, FALSE, FALSE), Capsule(3, TRUE, FALSE, FALSE) >>,
        {1}, "warp")

\* A second load capsule feeds the store capsule, and the operation that
\* pads its input is positioned after the main operation.
LateLoadGraph ==
    GeneratorDag(
        << PlaceholderOp("A", <<1>>),
           Op("load_a", TRUE, "", <<7, 2, 2>>, <<>>, TRUE, <<2>>, 2),
           Op("mma", TRUE, "", <<7, 5, 2, 2>>, <<1, 2>>, TRUE, <<6>>, 2),
           PlaceholderOp("C", <<4>>),
           Op("pad_c", TRUE, "", <<7, 5>>, <<>>, TRUE, <<5>>, 0),
           Op("load_c", TRUE, "", <<7, 5, 2, 2>>, <<>>, TRUE, <<6>>, 2),
           Op("store", TRUE, "", <<7, 5, 2, 2>>, <<>>, TRUE, <<7>>, 2),
           Op("relu", TRUE, "", <<37>>, <<>>, FALSE, <<>>, 0) >>,
        << Capsule(1, FALSE, TRUE, FALSE), Capsule(5, FALSE, TRUE, FALSE),
           Capsule(2, TRUE, TRUE, TRUE), Capsule(6, TRUE, FALSE, FALSE) >>,
        {1}, "warp")

Graphs ==
    {PaddedGraph, BareGraph, NoSplitReduceGraph, NoMainGraph,
     ReservedAbsentGraph, MainIsSinkGraph, TwoOutputGraph, LateLoadGraph}

\* The Params values handed to apply: two the generator can produce for
\* these extents, and an empty one.
ApplyParams ==
    << Params(<<4, 0>>,
              << << <<1, 1, 7>>, <<0, 0>> >>, << <<1, 5, 1>>, <<0, 0>> >> >>,
              << << <<1, 1, 1>>, <<0, 0>> >> >>,
              << << <<37, 1>>, <<0>> >> >>,
              <<16, 0>>, <<64, 0>>),
       Params(<<2, 1>>,
              << << <<7, 1, 1>>, <<0, 0>> >>, << <<1, 1, 5>>, <<0, 0>> >> >>,
              << << <<1, 1, 1>>, <<0, 0>> >> >>,
              << << <<37, 1>>, <<0>> >> >>,
              <<512, 0>>, <<16, 0>>),
       empty_params >>

\* CUDAScheduleApplier.warp_size
warp_size == 32

\* Exceptions that end apply
AssertionError == "AssertionError"
IndexError == "IndexError"
NoReduceAxis == "RuntimeError: No reduce axis in main op."

HasRole(op) == op.role # "none"

\* can_inline(op, dag)
can_inline(op) == op.in_feed /\ op.compute /\ Len(op.reduce_axis) = 0

\* a split loop that walks factors[1:] from its first factor to its last
RECURSIVE SplitChain_Forward(_, _, _, _, _, _)
SplitChain_Forward(x, iv, factors, k, inners, log) ==
    IF k < 2 THEN [part |-> <<iv>> \o inners, sch |-> log]
    ELSE LET f == factors[Len(factors) + 2 - k]
             sp == SplitFactor(iv, f)
         IN  SplitChain_Forward(x, sp[1], factors, k - 1, <<sp[2]>> \o inners,
                 Append(log, SchCall("split", x, "op", <<iv>>, f, "factor")))

\* part = []; for f in reversed(factors[1:]): iv, inner = split(iv, factor=f);
\* part.append(inner); part.append(iv); part = list(reversed(part))
RECURSIVE SplitChain(_, _, _, _, _, _)
SplitChain(x, iv, factors, k, inners, log) ==
    IF k < 2 THEN [part |-> <<iv>> \o inners, sch |-> log]
    ELSE LET sp == SplitFactor(iv, factors[k])
         IN  SplitChain(x, sp[1], factors, k - 1, <<sp[2]>> \o inners,
                 Append(log, SchCall("split", x, "op", <<iv>>, factors[k],
                                     "factor")))

\* for iv, factors in zip(axes, factor_lst): split iv, collect the parts
RECURSIVE SplitAll(_, _, _, _, _, _)
SplitAll(x, axes, factor_lst, i, parts, log) ==
    IF i > Len(axes) \/ i > Len(factor_lst)
    THEN [parts |-> parts, sch |-> log]
    ELSE LET c == SplitChain(x, axes[i], factor_lst[i],
                             Len(factor_lst[i]), <<>>, log)
         IN  SplitAll(x, axes, factor_lst, i + 1, Append(parts, c.part),
                      c.sch)

\* [list(x) for x in zip(*parts)]
Transpose(parts) ==
    IF parts = <<>> THEN <<>>
    ELSE LET m == CHOOSE n \in {Len(parts[i]) : i \in 1..Len(parts)} :
                      \A i \in 1..Len(parts) : n <= Len(parts[i])
         IN  [j \in 1..m |-> [i \in 1..Len(parts) |-> parts[i][j]]]

\* [x[0] for x in factors[:number]]
FactorChoices(factors, number) == [i \in 1..number |-> factors[i][1]]

\* the axes of a list at the positions in / not in a set of 0-based indices
RECURSIVE PickAxes(_, _, _, _)
PickAxes(axes, idx, keep, i) ==
    IF i > Len(axes) THEN <<>>
    ELSE (IF ((i - 1) \in idx) = keep THEN <<axes[i]>> ELSE <<>>)
         \o PickAxes(axes, idx, keep, i + 1)

\* stage.bind on each axis of a list, in order
RECURSIVE BindAll(_, _, _, _)
BindAll(x, axes, tag, log) ==
    IF axes = <<>> THEN log
    ELSE BindAll(x, Tail(axes), tag,
                 Append(log, SchCall("bind", x, "op", <<axes[1]>>, 0, tag)))

\* [sch[X(op)].fuse(*part) for part in parts]
RECURSIVE FuseAll(_, _, _, _)
FuseAll(x, parts, fused, log) ==
    IF parts = <<>> THEN [fused |-> fused, sch |-> log]
    ELSE FuseAll(x, Tail(parts), Append(fused, Fuse(x, parts[1])),
                 Append(log, SchCall("fuse", x, "op", parts[1], 0, "")))

\* get_main_op_outermost_last_reduce_axis: the error it raises, or ""
MainOutermostErr(st) ==
    IF Len(st.main_op_reduce_axis) > 0
    THEN (IF Len(st.main_op_reduce_axis[1]) > 0 THEN "" ELSE AssertionError)
    ELSE NoReduceAxis
\* a getter that returns the last axis of the second level when there is one
get_main_op_outermost_last_reduce_axis_SecondLevel(st) ==
    IF Len(st.main_op_reduce_axis) > 1
    THEN st.main_op_reduce_axis[2][Len(st.main_op_reduce_axis[2])]
    ELSE st.main_op_reduce_axis[1][Len(st.main_op_reduce_axis[1])]

get_main_op_outermost_last_reduce_axis(st) ==
    st.main_op_reduce_axis[1][Len(st.main_op_reduce_axis[1])]

\* get_main_op_second_outermost_last_reduce_axis
MainSecondOutermostErr(st) ==
    IF Len(st.main_op_reduce_axis) > 1
    THEN (IF Len(st.main_op_reduce_axis[2]) > 0 THEN "" ELSE AssertionError)
    ELSE MainOutermostErr(st)
get_main_op_second_outermost_last_reduce_axis(st) ==
    IF Len(st.main_op_reduce_axis) > 1
    THEN st.main_op_reduce_axis[2][Len(st.main_op_reduce_axis[2])]
    ELSE get_main_op_outermost_last_reduce_axis(st)

\* get_output_op_third_innermost_last_axis
OutputThirdInnermostErr(st) ==
    IF Len(st.output_op_axis) > 2 /\ Len(NegIndex(st.output_op_axis, 3)) > 0
    THEN "" ELSE AssertionError
get_output_op_third_innermost_last_axis(st) ==
    LET l == NegIndex(st.output_op_axis, 3) IN l[Len(l)]

\* get_output_op_outermost_last_axis
OutputOutermostErr(st) ==
    IF Len(st.output_op_axis) > 1 /\ Len(st.output_op_axis[1]) > 0
    THEN "" ELSE AssertionError
get_output_op_outermost_last_axis(st) ==
    st.output_op_axis[1][Len(st.output_op_axis[1])]

\* get_last_op_outermost_last_axis
LastOutermostErr(st) ==
    IF Len(st.last_op_axis) > 0 /\ Len(st.last_op_axis[1]) > 0
    THEN "" ELSE AssertionError
get_last_op_outermost_last_axis(st) == st.last_op_axis[1][1]

\* get_main_op_warp_numbers
WarpNumbersErr(prm) ==
    IF /\ Len(prm.spatial_factors) > 0
       /\ \A i \in 1..Len(prm.spatial_factors) :
              Len(prm.spatial_factors[i][1]) > 1
    THEN "" ELSE AssertionError
get_main_op_warp_numbers(prm) ==
    ProdSeq([i \in 1..Len(prm.spatial_factors) |->
                NegIndex(prm.spatial_factors[i][1], 2)])

\* get_vectorize_length, get_output_op_unroll_step, get_last_op_unroll_step
get_vectorize_length(prm) == prm.vectorize[1]
get_output_op_unroll_step(prm) == prm.output_unroll_step[1]
get_last_op_unroll_step(prm) == prm.last_unroll_step[1]

\* an inline that issues compute_inline and does not record the operation
inline_NotRecorded(g, prm, st, log, op_id, x) ==
    LET op == g.op_lst[x + 1]
    IN  IF ~HasRole(op) /\ can_inline(op)
        THEN Result("", st, Append(log, SchCall("compute_inline", x, "op",
                                                <<>>, 0, "")))
        ELSE Result("", st, log)

\* inline(op_id, op, sch, X)
inline(g, prm, st, log, op_id, x) ==
    LET op == g.op_lst[x + 1]
    IN  IF HasRole(op) THEN Result("", st, log)
        ELSE IF can_inline(op)
        THEN Result("", [st EXCEPT !.inlined = @ \cup {x}],
                    Append(log, SchCall("compute_inline", x, "op", <<>>,
                                        0, "")))
        ELSE Result("", st, log)

\* cache_read(op_id, op, sch, X)
cache_read(g, prm, st, log, op_id, x) ==
    LET op == g.op_lst[x + 1]
        consumers == op.feeds
        c0 == consumers[1]
        do_cache_read_for_load ==
            /\ c0 + 1 \in 1..Len(g.op_lst)
            /\ g.op_lst[c0 + 1].role = "load"
            /\ Len(consumers) = 1
        do_cache_read_for_last ==
            c0 = Len(g.op_lst) - 1 /\ Len(consumers) = 1
        log1 == Append(log, SchCall("cache_read", x, "op", <<>>, 0,
                                    "shared"))
        axis == get_main_op_outermost_last_reduce_axis(st)
        log2 == Append(log1, SchCall("compute_at", x, "cache", <<axis>>,
                                     g.main_op, ""))
        vec_len == get_vectorize_length(prm)
        warp_num == get_main_op_warp_numbers(prm)
        S == [i \in 1..Len(op.axis) |->
                 Axis(x, "S.s" \o ToString(i - 1), op.axis[i])]
        fused == Fuse(x, S)
        v == SplitFactor(fused, vec_len)
        t == SplitFactor(v[1], warp_size)
        w == SplitFactor(t[1], warp_num)
        log3 == log2 \o
            << SchCall("fuse", x, "cache", S, 0, ""),
               SchCall("split", x, "cache", <<fused>>, vec_len, "factor"),
               SchCall("split", x, "cache", <<v[1]>>, warp_size, "factor"),
               SchCall("split", x, "cache", <<t[1]>>, warp_num, "factor"),
               SchCall("bind", x, "cache", <<t[2]>>, 0, "threadIdx.x"),
               SchCall("bind", x, "cache", <<w[2]>>, 0, "threadIdx.y"),
               SchCall("vectorize", x, "cache", <<v[2]>>, 0, "") >>
    IN  IF HasRole(op) \/ ~op.in_feed \/ Len(consumers) <= 0
        THEN Result("", st, log)
        ELSE IF do_cache_read_for_load /\ do_cache_read_for_last
        THEN Result(AssertionError, st, log)
        ELSE IF ~do_cache_read_for_load THEN Result("", st, log)
        ELSE IF MainOutermostErr(st) # ""
        THEN Result(MainOutermostErr(st), st, log1)
        ELSE IF WarpNumbersErr(prm) # ""
        THEN Result(AssertionError, st, log2)
        ELSE IF prm.vectorize = <<>> THEN Result(AssertionError, st, log2)
        ELSE Result("", st, log3)

\* set_scope(op_id, op, sch, X)
set_scope(g, prm, st, log, op_id, x) ==
    LET op == g.op_lst[x + 1]
    IN  IF HasRole(op) /\ op.role # "output"
        THEN Result("", st, Append(log, SchCall("set_scope", x, "op",
                                                <<>>, 0, "local")))
        ELSE Result("", st, log)

\* a bind axis taken one position further out
MainTensorizeIter_OneFurtherOut(ordered_axis, reserve_spatial_num, reserve_reduce_num) ==
    NegIndex(ordered_axis, reserve_spatial_num + reserve_reduce_num + 1)

\* ordered_axis[-(reserve_spatial_num + reserve_reduce_num)]
MainTensorizeIter(ordered_axis, reserve_spatial_num, reserve_reduce_num) ==
    NegIndex(ordered_axis, reserve_spatial_num + reserve_reduce_num)

\* tiling, op == self.main_op
TilingMain(g, prm, st, log, x) ==
    LET op == g.op_lst[x + 1]
        axis == SpatialAxes(g, x)
        reserve_spatial_num == op.reserve
        spatial_axis_split_parts ==
            << SliceButLast(axis, reserve_spatial_num),
               SliceLast(axis, reserve_spatial_num) >>
        all_reduce_axis == ReduceAxes(g, x)
        reserve_reduce_axis ==
            PickAxes(all_reduce_axis, g.main_op_reserve_reduce_axis, TRUE, 1)
        split_reduce_axis ==
            PickAxes(all_reduce_axis, g.main_op_reserve_reduce_axis, FALSE, 1)
        reserve_reduce_num == Len(reserve_reduce_axis)
        pos == get_output_op_third_innermost_last_axis(st)
        log1 == Append(log, SchCall("compute_at", x, "op", <<pos>>,
                                    g.output_op, ""))
        number == Len(split_reduce_axis)
        sp == SplitAll(x, split_reduce_axis,
                       FactorChoices(prm.reduce_factors, number), 1, <<>>, log1)
        reordered_reduce_axis ==
            Append(Transpose(sp.parts), reserve_reduce_axis)
        n == Len(reordered_reduce_axis)
        ordered_axis ==
            Flatten(SliceButLast(reordered_reduce_axis, 2)
                    \o << spatial_axis_split_parts[1] >>
                    \o << reordered_reduce_axis[n - 1] >>
                    \o << spatial_axis_split_parts[2] >>
                    \o << reordered_reduce_axis[n] >>)
        log2 == Append(sp.sch, SchCall("reorder", x, "op", ordered_axis,
                                       0, ""))
        st1 == [st EXCEPT !.main_op_reduce_axis = reordered_reduce_axis]
        k == reserve_spatial_num + reserve_reduce_num
    IN  IF OutputThirdInnermostErr(st) # ""
        THEN Result(AssertionError, st, log)
        ELSE IF Len(prm.reduce_factors) < number
        THEN Result(AssertionError, st, log1)
        ELSE IF ~(n > 3) THEN Result(AssertionError, st, sp.sch)
        ELSE IF ~HasNegIndex(ordered_axis, k) THEN Result(IndexError, st1, log2)
        ELSE Result("", [st1 EXCEPT !.tensorize_iter =
                            DictPut(@, x, MainTensorizeIter(ordered_axis,
                                reserve_spatial_num, reserve_reduce_num))],
                    log2)

\* binds that give the second fused axis to a virtual thread and none to
\* threadIdx.y
BindFused_VthreadSecond(x, fused_axis, log) ==
    BindAll(x, SubSeq(fused_axis, 2, Len(fused_axis)), "vthread",
        Append(log, SchCall("bind", x, "op", <<fused_axis[1]>>, 0,
                            "blockIdx.x")))

\* bind(fused_axis[0], bx); bind each of fused_axis[1:-1] to a vthread;
\* bind(fused_axis[-1], ty)
BindFused(x, fused_axis, log) ==
    Append(
      BindAll(x, SubSeq(fused_axis, 2, Len(fused_axis) - 1), "vthread",
          Append(log, SchCall("bind", x, "op", <<fused_axis[1]>>, 0,
                              "blockIdx.x"))),
      SchCall("bind", x, "op", <<fused_axis[Len(fused_axis)]>>, 0,
              "threadIdx.y"))

\* tiling, op == self.output_op
TilingOutput(g, prm, st, log, x) ==
    LET op == g.op_lst[x + 1]
        axis == SpatialAxes(g, x)
        reserve_spatial_num == op.reserve
        split_spatial_axis == SliceButLast(axis, reserve_spatial_num)
        reserve_spatial_axis == SliceLast(axis, reserve_spatial_num)
        number == Len(split_spatial_axis)
        sp == SplitAll(x, split_spatial_axis,
                       FactorChoices(prm.spatial_factors, number), 1, <<>>, log)
        reordered_spatial_axis ==
            Append(Transpose(sp.parts), reserve_spatial_axis)
        n == Len(reordered_spatial_axis)
        log1 == Append(sp.sch, SchCall("reorder", x, "op",
                                       Flatten(reordered_spatial_axis), 0, ""))
        fa == FuseAll(x, SliceButLast(reordered_spatial_axis, 2), <<>>,
                      log1)
        fused_axis == fa.fused
        m == Len(fused_axis)
        log2 == BindFused(x, fused_axis, fa.sch)
        fused == Fuse(x, reordered_spatial_axis[n - 1])
        oi == SplitNparts(fused, warp_size)
        log3 == IF g.instruction_scope = "thread"
                THEN log2 \o
                     << SchCall("fuse", x, "op",
                                reordered_spatial_axis[n - 1], 0, ""),
                        SchCall("split", x, "op", <<fused>>, warp_size,
                                "nparts"),
                        SchCall("bind", x, "op", <<oi[1]>>, 0,
                                "threadIdx.x") >>
                ELSE log2
        final_axis ==
            [i \in 1..m |-> <<fused_axis[i]>>]
            \o << IF g.instruction_scope = "thread" THEN oi
                  ELSE reordered_spatial_axis[n - 1] >>
            \o << reordered_spatial_axis[n] >>
        st1 == [st EXCEPT !.output_op_axis = final_axis]
    IN  IF Len(prm.spatial_factors) < number
        THEN Result(AssertionError, st, log)
        ELSE IF ~(n > 3) THEN Result(AssertionError, st, log1)
        ELSE IF ~HasNegIndex(reordered_spatial_axis[n], 2)
        THEN Result(IndexError, st1, log3)
        ELSE Result("", [st1 EXCEPT !.tensorize_iter =
                            DictPut(@, x,
                                    NegIndex(reordered_spatial_axis[n], 2))],
                    log3)

\* tiling, op == self.target_dag.op_lst[-1]
TilingLast(g, prm, st, log, x) ==
    LET axis == SpatialAxes(g, x)
        fused == Fuse(x, axis)
        ft == SplitFactor(fused, warp_size)
        thread_level == ft[2]
        log1 == log \o << SchCall("fuse", x, "op", axis, 0, ""),
                          SchCall("split", x, "op", <<fused>>, warp_size,
                                  "factor") >>
        factors == prm.last_factors[1][1]
        c == SplitChain(x, ft[1], factors, Len(factors), <<>>, log1)
        split_parts == c.part
        log2 == c.sch \o
            << SchCall("bind", x, "op", <<split_parts[1]>>, 0,
                       "blockIdx.x"),
               SchCall("bind", x, "op",
                       <<split_parts[Len(split_parts)]>>, 0, "threadIdx.y"),
               SchCall("bind", x, "op", <<thread_level>>, 0,
                       "threadIdx.x") >>
    IN  IF Len(prm.last_factors) < 1 THEN Result(AssertionError, st, log1)
        ELSE Result("", [st EXCEPT !.last_op_axis =
                            << Append(split_parts, thread_level) >>], log2)

\* tiling(op_id, op, sch, X)
tiling(g, prm, st, log, op_id, x) ==
    IF x = g.main_op THEN TilingMain(g, prm, st, log, x)
    ELSE IF x = g.output_op THEN TilingOutput(g, prm, st, log, x)
    ELSE IF x = Len(g.op_lst) - 1 THEN TilingLast(g, prm, st, log, x)
    ELSE Result("", st, log)

\* compute_at: anchor op at an axis of the parent stage and record the
\* tensorize axis
ComputeAtParent(g, st, log, x, parent, err, axis) ==
    LET op == g.op_lst[x + 1]
        own == SpatialAxes(g, x)
        log1 == Append(log, SchCall("compute_at", x, "op", <<axis>>,
                                    parent, ""))
    IN  IF err # "" THEN Result(err, st, log)
        ELSE IF ~HasNegIndex(own, op.reserve) THEN Result(IndexError, st, log1)
        ELSE Result("", [st EXCEPT !.tensorize_iter =
                            DictPut(@, x, NegIndex(own, op.reserve))],
                    log1)

\* compute_at(op_id, op, sch, X)
compute_at(g, prm, st, log, op_id, x) ==
    LET op == g.op_lst[x + 1]
    IN  IF ~HasRole(op) THEN Result("", st, log)
        ELSE IF op_id < g.main_op_id
        THEN ComputeAtParent(g, st, log, x, g.main_op,
                 MainSecondOutermostErr(st),
                 get_main_op_second_outermost_last_reduce_axis(st))
        ELSE IF g.main_op_id < op_id /\ op_id < g.output_op_id
        THEN ComputeAtParent(g, st, log, x, g.output_op,
                 OutputThirdInnermostErr(st),
                 get_output_op_third_innermost_last_axis(st))
        ELSE Result("", st, log)

\* pragma(axis, "auto_unroll_max_step", step), after the two getters
Pragma(st, log, x, axis_err, axis, step_param, step) ==
    IF axis_err # "" THEN Result(axis_err, st, log)
    ELSE IF step_param = <<>> THEN Result(AssertionError, st, log)
    ELSE Result("", st, Append(log, SchCall("pragma", x, "op", <<axis>>,
                                            step, "auto_unroll_max_step")))

\* unroll(op_id, op, sch, X)
unroll(g, prm, st, log, op_id, x) ==
    IF x = g.output_op
    THEN Pragma(st, log, x, OutputOutermostErr(st),
                get_output_op_outermost_last_axis(st),
                prm.output_unroll_step, get_output_op_unroll_step(prm))
    ELSE IF x = g.main_op
    THEN Pragma(st, log, x, MainOutermostErr(st),
                get_main_op_outermost_last_reduce_axis(st),
                prm.output_unroll_step, get_output_op_unroll_step(prm))
    ELSE IF x = Len(g.op_lst) - 1
    THEN Pragma(st, log, x, LastOutermostErr(st),
                get_last_op_outermost_last_axis(st),
                prm.last_unroll_step, get_last_op_unroll_step(prm))
    ELSE Result("", st, log)

\* tensorize(op_id, op, sch, X)
tensorize(g, prm, st, log, op_id, x) ==
    LET op == g.op_lst[x + 1]
    IN  IF ~HasRole(op) THEN Result("", st, log)
        ELSE IF x \notin DOMAIN st.tensorize_iter
        THEN Result(AssertionError, st, log)
        ELSE Result("", st, Append(log, SchCall("tensorize", x, "op",
                                       <<st.tensorize_iter[x]>>, 0, "")))

\* primitives, in the order apply lists them
primitives ==
    << "inline", "cache_read", "set_scope", "tiling", "compute_at", "unroll",
       "tensorize" >>

\* what one apply did: how it ended, the calls it made, the schedule
\* primitives it issued and the state it left
Snapshot(err, calls, log, st) ==
    [err |-> err, trace |-> calls, sch |-> log, state |-> st]
NoResult == Snapshot("never applied", <<>>, <<>>, empty_state)

Idle == [phase |-> "idle", i |-> 0, prim |-> 1, p |-> 1, err |-> ""]

\* A constructed applier on which apply has not been called.
ApplierInit(g) ==
    /\ dag = g
    /\ params = empty_params
    /\ state = empty_state
    /\ sch = <<>>
    /\ trace = <<>>
    /\ pc = Idle
    /\ hist = [p \in 1..Len(ApplyParams) |-> NoResult]
    /\ nApply = 0

\* an initialize_state that leaves the state of the previous apply in place
initialize_state_Keep == state

\* initialize_state()
initialize_state == empty_state

\* reversed(dag.op_lst), as operation objects
ReversedOps == Reverse([k \in 1..Len(dag.op_lst) |-> k - 1])
\* the operation the loop of apply is at
CurrentOp == ReversedOps[pc.i + 1]
\* the index of the loop over the reversed list passed on as it is
PassedOpId_EnumerateIndex == pc.i

\* total_op - op_id - 1, the position apply passes to the primitives
PassedOpId == Len(dag.op_lst) - pc.i - 1

\* apply(sch, params) up to its loop: a fresh schedule, the parameters stored
\* and the state reset.
Apply(p) ==
    /\ pc.phase # "run"
    /\ nApply < MaxApply
    /\ nApply' = nApply + 1
    /\ hist' = IF pc.phase = "idle" THEN hist
               ELSE [hist EXCEPT ![pc.p] = Snapshot(pc.err, trace, sch, state)]
    /\ params' = ApplyParams[p]
    /\ state' = initialize_state
    /\ sch' = <<>>
    /\ trace' = <<>>
    /\ pc' = [phase |-> "run", i |-> 0, prim |-> 1, p |-> p, err |-> ""]
    /\ UNCHANGED dag
    /\ UNCHANGED <<gvars, pvars>>

\* if not isinstance(op, tvm.te.ComputeOp): continue
SkipOp ==
    /\ pc.phase = "run"
    /\ pc.i < Len(dag.op_lst)
    /\ ~dag.op_lst[CurrentOp + 1].compute
    /\ pc' = [pc EXCEPT !.i = @ + 1]
    /\ UNCHANGED <<dag, params, state, sch, trace, hist, nApply>>
    /\ UNCHANGED <<gvars, pvars>>

\* prim(total_op - op_id - 1, op, sch, X) for the primitive the loop is at
RunPrimitive(name, r) ==
    /\ pc.phase = "run"
    /\ pc.i < Len(dag.op_lst)
    /\ dag.op_lst[CurrentOp + 1].compute
    /\ primitives[pc.prim] = name
    /\ trace' = Append(trace, [op_id |-> PassedOpId, x |-> CurrentOp,
                               prim |-> name])
    /\ state' = r.st
    /\ sch' = r.sch
    /\ pc' = IF r.err # "" THEN [pc EXCEPT !.phase = "error", !.err = r.err]
             ELSE IF pc.prim < Len(primitives) THEN [pc EXCEPT !.prim = @ + 1]
             ELSE [pc EXCEPT !.i = @ + 1, !.prim = 1]
    /\ UNCHANGED <<dag, params, hist, nApply>>
    /\ UNCHANGED <<gvars, pvars>>

Inline ==
    RunPrimitive("inline",
                 inline(dag, params, state, sch, PassedOpId, CurrentOp))
CacheRead ==
    RunPrimitive("cache_read",
                 cache_read(dag, params, state, sch, PassedOpId, CurrentOp))
SetScope ==
    RunPrimitive("set_scope",
                 set_scope(dag, params, state, sch, PassedOpId, CurrentOp))
Tiling ==
    RunPrimitive("tiling",
                 tiling(dag, params, state, sch, PassedOpId, CurrentOp))
ComputeAt ==
    RunPrimitive("compute_at",
                 compute_at(dag, params, state, sch, PassedOpId, CurrentOp))
Unroll ==
    RunPrimitive("unroll",
                 unroll(dag, params, state, sch, PassedOpId, CurrentOp))
Tensorize ==
    RunPrimitive("tensorize",
                 tensorize(dag, params, state, sch, PassedOpId, CurrentOp))

\* return sch
ApplyReturn ==
    /\ pc.phase = "run"
    /\ pc.i = Len(dag.op_lst)
    /\ pc' = [pc EXCEPT !.phase = "done"]
    /\ UNCHANGED <<dag, params, state, sch, trace, hist, nApply>>
    /\ UNCHANGED <<gvars, pvars>>

ApplyStep == \E p \in 1..Len(ApplyParams) : Apply(p)

----------------------------------------------------------------------------
(* The generator alone, built for PaddedGraph; and the applier alone, on   *)
(* any of the graphs.                                                      *)

\* no call made yet
NoCallYet == [fn |-> "none", arg |-> <<>>, ret |-> <<>>]

Init == GenInit /\ ApplierInit(PaddedGraph) /\ pure = NoCallYet

Next == GenNext

Spec == Init /\ [][Next]_vars

ApplyInit ==
    GenInit /\ (\E g \in Graphs : ApplierInit(g)) /\ pure = NoCallYet

ApplyNext ==
    \/ ApplyStep
    \/ SkipOp
    \/ Inline
    \/ CacheRead
    \/ SetScope
    \/ Tiling
    \/ ComputeAt
    \/ Unroll
    \/ Tensorize
    \/ ApplyReturn

SpecApply == ApplyInit /\ [][ApplyNext]_vars

----------------------------------------------------------------------------
(* Functions and methods that keep no state between calls, each applied to *)
(* arguments drawn from small sets.  Specification: SpecCalls.             *)

\* An argument of auto_schedule: the values of transform_state.main_op_map
\* in iteration order (operations named by position in op_lst), the number
\* of reduce axes of every operation of transform_state.target_dag.op_lst,
\* and recipe.target.
AutoScheduleArgs ==
    [main_op_map : {<<>>, <<0>>, <<1>>, <<2>>, <<0, 1>>},
     reduce_axis : UNION {[1..n -> {0, 2}] : n \in 1..3},
     target : {"cuda", "llvm", "opencl"}]

NotMainReduce ==
    "RuntimeError: We do not support scheduling for reduce op which is not main op."
TargetNotSupported == "RuntimeError: Target not supported"

\* auto_schedule(intrin_match_result, transform_state): the exception it
\* raises, or "" when it runs to its end
auto_schedule(a) ==
    LET n == Len(a.main_op_map)
        target_main_op == a.main_op_map[n]
    IN  IF n = 0 THEN AssertionError
        ELSE IF \E x \in 0..(Len(a.reduce_axis) - 1) :
                    a.reduce_axis[x + 1] > 0 /\ x # target_main_op
        THEN NotMainReduce
        ELSE IF a.target = "cuda" THEN ""
        ELSE TargetNotSupported

AutoSchedule ==
    /\ pure.fn = NoCallYet.fn
    /\ \E a \in AutoScheduleArgs :
          pure' = [fn |-> "auto_schedule", arg |-> a, ret |-> auto_schedule(a)]
    /\ UNCHANGED <<gvars, avars>>

\* Extents and part counts a SplitFactorGenerator is built for.
SplitExtents == {4, 6, 7, 8, 12}
SplitParts == {last_op_tiling_parts, spatial_tiling_parts}

\* QLearningParamGenerator.get(hint, policy) with every outcome of its two
\* random draws: any choice when no hint is given, and any move of the
\* Q-table row of the choice.
QLearningGet(gen, hint) ==
    LET inits == IF hint = <<>> THEN Range(gen.choices)
                 ELSE {map_to_hidden(gen, hint[1])}
    IN  UNION {{<<map_from_hidden(gen, m.des), m.d>> :
                    m \in Range(QRow(gen, init))} : init \in inits}

\* gen.get(policy="random") and gen.get(hint=x[0], policy="q") of a split
\* generator, as CUDAScheduleGenerator.get calls them; a hint is a
\* factorization of the extent.
SplitGet ==
    /\ pure.fn = NoCallYet.fn
    /\ \E extent \in SplitExtents, parts \in SplitParts :
         LET gen == SplitFactorGenerator(extent, parts)
             factor_list == any_factor_split(extent, parts)
         IN  \E hint \in {<<>>} \cup {<<f>> : f \in Range(factor_list)} :
               \E r \in QLearningGet(gen, hint) :
                 pure' = [fn |-> "SplitFactorGenerator.get",
                          arg |-> [extent |-> extent, parts |-> parts,
                                   hint |-> hint],
                          ret |-> r]
    /\ UNCHANGED <<gvars, avars>>

\* Params handed to to_json: each field is None (the empty tuple) or a
\* value the generators return.
SomeParams ==
    LET menus == {<<>>, <<16, 0>>, <<64, 1>>}
        spatial == {<<>>, << << <<1, 1, 7>>, <<0, 0>> >> >>,
                    << << <<7, 1, 1>>, <<0, -1>> >>,
                       << <<1, 5, 1>>, <<1, 0>> >> >>}
        reduce == {<<>>, << << <<1, 1, 1>>, <<0, 0>> >> >>}
        lasts == {<<>>, << << <<37, 1>>, <<0>> >> >>}
    IN  {Params(v, s, r, l, uo, ul) :
            v \in {<<>>, <<4, 0>>, <<2, 1>>}, s \in spatial, r \in reduce,
            l \in lasts, uo \in menus, ul \in menus}

\* self.record_from_json(p.to_json())
RecordFromJson ==
    /\ pure.fn = NoCallYet.fn
    /\ \E p \in SomeParams :
          pure' = [fn |-> "record_from_json", arg |-> p,
                   ret |-> record_from_json(to_json(p))]
    /\ UNCHANGED <<gvars, avars>>

\* q = empty_params(); q.from_json(p.to_json())
FromJson ==
    /\ pure.fn = NoCallYet.fn
    /\ \E p \in SomeParams :
          pure' = [fn |-> "Params.from_json", arg |-> p,
                   ret |-> from_json(empty_params, to_json(p))]
    /\ UNCHANGED <<gvars, avars>>

\* The generators init_param_generator builds, each with the values its
\* choices stand for: factorizations, vector lengths, unroll steps.
SplitChoiceSpace(extent, parts) ==
    [gen |-> SplitFactorGenerator(extent, parts),
     name |-> <<"SplitFactorGenerator", extent, parts>>,
     space |-> Range(any_factor_split(extent, parts))]

VectorizeChoiceSpace ==
    [gen |-> VectorizeLengthGenerator, name |-> <<"VectorizeLengthGenerator">>,
     space |-> Range(get_factor_lst(get_vector_length))]

UnrollChoiceSpace ==
    [gen |-> UnrollStepGenerator(UnrollSteps),
     name |-> <<"UnrollStepGenerator">>, space |-> Range(UnrollSteps)]

\* gen.map_to_hidden(x), then gen.map_from_hidden of the result
HiddenAndBack(c, x) ==
    LET hidden == map_to_hidden(c.gen, x)
    IN  [fn |-> "map_from_hidden", arg |-> [gen |-> c.name, x |-> x],
         ret |-> [hidden |-> hidden, value |-> map_from_hidden(c.gen, hidden)]]

MapToAndFromHidden ==
    /\ pure.fn = NoCallYet.fn
    /\ \/ \E extent \in SplitExtents, parts \in SplitParts :
            \E x \in SplitChoiceSpace(extent, parts).space :
                pure' = HiddenAndBack(SplitChoiceSpace(extent, parts), x)
       \/ \E x \in VectorizeChoiceSpace.space :
            pure' = HiddenAndBack(VectorizeChoiceSpace, x)
       \/ \E x \in UnrollChoiceSpace.space :
            pure' = HiddenAndBack(UnrollChoiceSpace, x)
    /\ UNCHANGED <<gvars, avars>>

\* The split loop of tiling on one axis of extent e, with a factorization
\* of e into spatial_tiling_parts (= reduce_tiling_parts) factors.
TilingSplit ==
    /\ pure.fn = NoCallYet.fn
    /\ \E extent \in SplitExtents :
         \E factors \in Range(any_factor_split(extent, spatial_tiling_parts)) :
            pure' = [fn |-> "tiling.split",
                     arg |-> [extent |-> extent, factors |-> factors],
                     ret |-> SplitChain(0, Axis(0, "s0", extent), factors,
                                        Len(factors), <<>>, <<>>)]
    /\ UNCHANGED <<gvars, avars>>

\* SplitFactorGenerator(extent, parts) for each axis of a list, kept as the
\* arguments of the constructor
SplittersFor(axes, parts) ==
    [i \in 1..Len(axes) |-> [extent |-> axes[i].ext, parts |-> parts]]

\* init_param_generator on the graph g: the split generators it builds
init_param_generator(g) ==
    LET main_op == g.op_lst[g.main_op + 1]
        output_op == g.op_lst[g.output_op + 1]
        last_op == g.op_lst[Len(g.op_lst)]
        reserve_axis_count == output_op.reserve
    IN  << \* reduce_splits
            SplittersFor(PickAxes(ReduceAxes(g, g.main_op),
                                  g.main_op_reserve_reduce_axis, FALSE, 1),
                         reduce_tiling_parts),
            \* spatial_splits
            SplittersFor(SliceButLast(SpatialAxes(g, g.output_op),
                                      reserve_axis_count),
                         spatial_tiling_parts),
            \* last_splits
            << [extent |-> ProdSeq(last_op.axis),
                parts |-> last_op_tiling_parts] >> >>

\* the graph g with reserve_inner_axis_count[output_op] set to count
WithOutputReserve(g, count) ==
    [g EXCEPT !.op_lst[g.output_op + 1].reserve = count]

\* The constructor's call of init_param_generator, for the graphs that have
\* a main operation and every reserved count of the output operation.
InitParamGenerator ==
    /\ pure.fn = NoCallYet.fn
    /\ \E g \in {h \in Graphs : h.main_op # NoOp} :
         \E count \in 0..Len(g.op_lst[g.output_op + 1].axis) :
            pure' = [fn |-> "init_param_generator",
                     arg |-> WithOutputReserve(g, count),
                     ret |-> init_param_generator(WithOutputReserve(g, count))]
    /\ UNCHANGED <<gvars, avars>>

\* The largest number of capsules of an intrinsic whose role walk is explored.
MaxCapsules == 3

\* the dependency structures of n capsules listed in topological order: the
\* sets of edges from a capsule to a later one
CapsuleEdges(n) ==
    SUBSET {p \in (1..n) \X (1..n) : p[1] < p[2]}

\* capsule_names, read_graph and feed_graph of recipe.serialize_dag for n
\* capsules with the given edges: capsule i is the operation at position
\* i - 1, is in read_graph when a capsule feeds it and in feed_graph when a
\* capsule reads it
serialize_dag(n, edges, main) ==
    [i \in 1..n |-> Capsule(i - 1,
                            \E p \in edges : p[2] = i,
                            \E p \in edges : p[1] = i,
                            i = main)]

\* The walk over capsule_names in CUDAScheduleGenerator.__init__: the role
\* of each capsule's operation, self.main_op, self.output_op and the
\* assertion that follows the loop
RoleWalk(capsules) ==
    [error |-> IF OutputOpOf(capsules) = NoOp THEN AssertionError ELSE "",
     operation_role |-> [i \in 1..Len(capsules) |->
                            OperationRole(capsules, capsules[i].op)],
     main_op |-> capsules[CHOOSE i \in 1..Len(capsules) :
                              capsules[i].main].op,
     output_op |-> OutputOpOf(capsules)]

\* The constructor's walk for every dependency structure of at most
\* MaxCapsules capsules and every choice of the main capsule.
AssignRoles ==
    /\ pure.fn = NoCallYet.fn
    /\ \E n \in 1..MaxCapsules :
         \E edges \in CapsuleEdges(n), main \in 1..n :
            pure' = [fn |-> "operation_role",
                     arg |-> serialize_dag(n, edges, main),
                     ret |-> RoleWalk(serialize_dag(n, edges, main))]
    /\ UNCHANGED <<gvars, avars>>

RECURSIVE MultiIndices(_, _)
\* the multi-indices of n components, each in 0..top
MultiIndices(n, top) ==
    IF n = 0 THEN {<<>>}
    ELSE {<<v>> \o rest : v \in 0..top, rest \in MultiIndices(n - 1, top)}

\* move_towards_direction followed by valid, as QLearningParamGenerator
\* does for every direction of a Q-table row, on every multi-index of the
\* generator's index range.
MoveTowardsDirection ==
    /\ pure.fn = NoCallYet.fn
    /\ \E extent \in SplitExtents, parts \in SplitParts :
         LET gen == SplitFactorGenerator(extent, parts)
         IN  \E init \in MultiIndices(parts, gen.sum_val),
                d \in Range(gen.directions) :
               LET des == move_towards_direction(gen, init, d)
               IN  pure' = [fn |-> "move_towards_direction",
                            arg |-> [extent |-> extent, parts |-> parts,
                                     init |-> init, d |-> d],
                            ret |-> [des |-> des,
                                     valid |-> GenValid(gen, des)]]
    /\ UNCHANGED <<gvars, avars>>

CallsInit == GenInit /\ ApplierInit(PaddedGraph) /\ pure = NoCallYet

\* The functions keep no state between calls, so every behaviour of SpecCalls
\* observes one call, made from the state after construction.
CallsNext ==
    \/ AutoSchedule
    \/ SplitGet
    \/ RecordFromJson
    \/ FromJson
    \/ MapToAndFromHidden
    \/ TilingSplit
    \/ InitParamGenerator
    \/ AssignRoles
    \/ MoveTowardsDirection

SpecCalls == CallsInit /\ [][CallsNext]_vars

----------------------------------------------------------------------------
(* Properties of the Schedule Generator, verified under Spec.              *)

GetReturned == last.op = "get" /\ last.kind = "loop"
IsGetStep == nCalls' = nCalls + 1 /\ last'.op = "get"
IsFeedbackStep == nCalls' = nCalls + 1 /\ last'.op = "feedback"

RECURSIVE WarpFactorProduct(_)
\* product of the index-1 factor of the choice of every spatial tuple
WarpFactorProduct(tuples) ==
    IF tuples = <<>> THEN 1
    ELSE tuples[1][1][2] * WarpFactorProduct(Tail(tuples))

\* C1: every record get returns from its candidate loop has a product of
\* spatial warp-dimension factors of at most 32 and a trailing-operation
\* warp-dimension factor of at most 32.
C1_ReturnedRecordFitsWarp ==
    GetReturned =>
        /\ WarpFactorProduct(last.rec.spatial_factors) <= 32
        /\ last.rec.last_factors[1][1][2] <= 32

\* a record with a warp factor above 1 returned by a later call of a
\* generator that has been fed back
C1_Witness ==
    /\ GetReturned
    /\ entries # <<>>
    /\ visited # {ParamsStr(last.rec)}
    /\ WarpFactorProduct(last.rec.spatial_factors) > 1

\* C2: with repeat=False the candidate loop never returns a record whose
\* string is already in visited, and visited holds the string of every
\* record the candidate loop has returned (whatever repeat was).
C2_NoDuplicateWithoutRepeat ==
    [][(IsGetStep /\ last'.kind = "loop") =>
          /\ ParamsStr(last'.rec) \in visited'
          /\ visited \subseteq visited'
          /\ (~last'.repeat => ParamsStr(last'.rec) \notin visited)]_gvars

\* a repeat=False call returned a fresh record after others had been returned
C2_Witness ==
    GetReturned /\ ~last.repeat /\ Cardinality(visited) >= 2

\* with repeat=True a record returned before is returned again
C2_RepeatReturnsAgain == GetReturned /\ last.repeat /\ last.dup

\* C3: when max_trial attempts yield no valid, non-duplicate candidate, get
\* returns without raising: the best archived entry if the archive is
\* non-empty, the first generated candidate if it is empty.
C3_ExhaustionNonFatal ==
    (last.op = "get" /\ last.kind \in {"fallback", "fallback_IndexError"}) =>
        IF entries # <<>>
        THEN /\ last.kind = "fallback"
             /\ Entry(last.rec, last.value) = entries[1]
        ELSE last.first # empty_params =>
                /\ last.kind # "fallback_IndexError"
                /\ last.rec = last.first

\* C4: when every candidate of a get(policy="random", repeat=False) call is
\* the one valid record an earlier call returned (what a choice space of
\* size 1 forces on the second call), the call returns that record and does
\* not raise.
C4_SingletonSecondGet ==
    (/\ last.op = "get" /\ last.policy = "random" /\ ~last.repeat
     /\ last.first # empty_params /\ last.uniform
     /\ ParamsStr(last.first) \in visited) =>
        /\ last.kind \notin {"fallback_IndexError", "sa_IndexError"}
        /\ last.rec = last.first

\* C5: the entry sa_select_entry returns is the entry drawn on the accepted
\* draw, or, when no draw was accepted, the entry it holds to be the best
\* (the head of its candidate list).
C5_SelectedEntryIsTheDrawnOne ==
    (last.op = "get" /\ last.sa.kind \in {"accepted", "default"}) =>
        /\ last.sa.kind = "accepted" =>
              last.sa.entry = SaCand(entries)[last.sa.choice + 1]
        /\ last.sa.kind = "default" => last.sa.entry = SaCand(entries)[1]

\* C6: after feedback calls, get(policy="greedy") and the exhaustion
\* fallback return an archived entry that no archived entry precedes in
\* the Entry ordering (the entry of the largest value).
C6_GreedyReturnsBest ==
    (last.op = "get" /\ last.kind \in {"greedy", "fallback"}) =>
        /\ \E k \in 1..Len(entries) : entries[k] = Entry(last.rec, last.value)
        /\ \A k \in 1..Len(entries) :
              /\ ~EntryLt(entries[k], Entry(last.rec, last.value))
              /\ entries[k].value <= last.value

\* greedy returned the best of several entries of different values, and the
\* best was not the first one pushed
C6_Witness ==
    /\ last.op = "get" /\ last.kind = "greedy"
    /\ Len(entries) >= 2
    /\ \E k \in 1..Len(entries) : entries[k].value < last.value

PairwiseDistinctValues(heap) ==
    \A j, k \in 1..Len(heap) : j # k => heap[j].value # heap[k].value

\* C7: the candidates of sa_select_entry are the min(max_num, size) best
\* archived entries, best first, and with pairwise distinct costs cand[0]
\* is the archive's best entry entries[0].
C7_CandidatesBestFirst ==
    (last.op = "get" /\ last.sa.kind # "none") =>
        LET cand == SaCand(entries)
        IN  /\ Len(cand) = Min2(max_num, Len(entries))
            /\ \A j, k \in 1..Len(cand) :
                  j < k => cand[j].value >= cand[k].value
            /\ PairwiseDistinctValues(entries) => cand[1] = entries[1]

Count(seq, e) == Cardinality({i \in 1..Len(seq) : seq[i] = e})

\* the order in which get draws the components of a record
SlotOrder(record) ==
    <<"vectorize">>
    \o [i \in 1..Len(record.spatial_factors) |-> "spatial_splits"]
    \o [i \in 1..Len(record.reduce_factors) |-> "reduce_splits"]
    \o [i \in 1..Len(record.last_factors) |-> "last_splits"]
    \o <<"unroll_output", "unroll_last">>

\* the (choice, direction) pairs of a record, in the same order
SlotPairs(record) ==
    <<record.vectorize>> \o record.spatial_factors \o record.reduce_factors
    \o record.last_factors
    \o <<record.output_unroll_step, record.last_unroll_step>>

\* C8: feedback(record, value) adds exactly one (record, value) entry to
\* the archive and forwards value once per component of the record, in the
\* order vectorize, spatial, reduce, last, output unroll, last unroll; get
\* draws the components in that order.
C8_FeedbackForwardsInDrawOrder ==
    [][/\ IsFeedbackStep =>
            LET record == last'.rec
                value == last'.value
            IN  /\ Len(entries') = Len(entries) + 1
                /\ \A e \in Range(entries') :
                      Count(entries', e) = Count(entries, e)
                          + (IF e = Entry(record, value) THEN 1 ELSE 0)
                /\ Len(genLog') = Len(SlotOrder(record))
                /\ \A i \in 1..Len(genLog') :
                      /\ genLog'[i].call = "feedback"
                      /\ genLog'[i].gen = SlotOrder(record)[i]
                      /\ genLog'[i].args[1] = SlotPairs(record)[i][1]
                      /\ genLog'[i].args[2] = SlotPairs(record)[i][2]
                      /\ genLog'[i].args[3] = value
       /\ (IsGetStep /\ last'.kind = "loop") =>
            /\ Len(genLog') = Len(SlotOrder(last'.rec))
            /\ \A i \in 1..Len(genLog') :
                  /\ genLog'[i].call = "get"
                  /\ genLog'[i].gen = SlotOrder(last'.rec)[i]]_gvars

\* a second entry was fed back
C8_Witness == last.op = "feedback" /\ Len(entries) >= 2

\* C30: whenever get calls sa_select_entry on a non-empty archive, whatever
\* the size of the archive and the outcome of the random draws, the call
\* raises nothing and returns an entry of its candidate list.
C30_SelectedEntryIsACandidate ==
    (last.op = "get" /\ last.sa.kind # NoSa.kind) =>
        /\ last.sa.kind \in {"accepted", "default"}
        /\ last.sa.entry \in Range(SaCand(entries))

\* the policies get does not know
UnknownPolicies == Policies \ {"random", "q", "greedy"}

\* C31: a call of get with max_trial >= 1 and a policy other than "random",
\* "q" and "greedy" raises the "Unknown policy" RuntimeError, returns no
\* record and adds nothing to the visited set, whether the archive is empty
\* or not.
C31_UnknownPolicyRaises ==
    [][\A policy \in UnknownPolicies, repeat \in BOOLEAN,
          max_trial \in MaxTrials \ {0} :
            Get(policy, repeat, max_trial) =>
                /\ last'.kind = "unknown_policy"
                /\ last'.rec = empty_params
                /\ visited' = visited]_gvars

\* C32: feedback leaves the visited set unchanged and get leaves the archive
\* unchanged; a get adds to the visited set at most the string of the
\* record its candidate loop returns, never that of a candidate it rejected,
\* and removes nothing from it.
C32_GetAndFeedbackFrames ==
    [][/\ IsFeedbackStep => visited' = visited
       /\ IsGetStep =>
            /\ entries' = entries
            /\ visited \subseteq visited'
            /\ visited' \ visited \subseteq
                  (IF last'.kind = "loop" THEN {ParamsStr(last'.rec)} ELSE {})
            /\ (last'.first # empty_params /\ last'.first # last'.rec) =>
                  (ParamsStr(last'.first) \in visited'
                      <=> ParamsStr(last'.first) \in visited)]_gvars

\* a get returned a record that was not visited before, on a generator that
\* has been fed back and had visited another record
C32_Witness ==
    /\ GetReturned
    /\ ~last.dup
    /\ entries # <<>>
    /\ Cardinality(visited) >= 2
    /\ ParamsStr(last.rec) \in visited

----------------------------------------------------------------------------
(* Properties of the Schedule Applier, verified under SpecApply.           *)

ComputeOps == {x \in 0..(Len(dag.op_lst) - 1) : dag.op_lst[x + 1].compute}

C9_Order ==
    << "inline", "cache_read", "set_scope", "tiling", "compute_at", "unroll",
       "tensorize" >>

\* C9: every primitive call of apply is made on a computation, with op_id the
\* position of that operation in op_lst; the calls come in groups of seven
\* per operation, in the order inline, cache_read, set_scope, tiling,
\* compute_at, unroll, tensorize; a group starts at the last computation of
\* the list or at the next computation before the previous group's, so that
\* positions strictly decrease and no computation is passed over; an apply
\* that returns has made all seven calls on every computation.
C9_ReverseVisitSevenPrimitives ==
    /\ \A j \in 1..Len(trace) :
        /\ trace[j].op_id = trace[j].x
        /\ trace[j].x \in ComputeOps
        /\ trace[j].prim = C9_Order[((j - 1) % 7) + 1]
        /\ (j > 1 /\ (j - 1) % 7 # 0) => trace[j].x = trace[j - 1].x
        /\ (j > 1 /\ (j - 1) % 7 = 0) =>
              /\ trace[j].op_id < trace[j - 1].op_id
              /\ \A y \in ComputeOps :
                    ~(trace[j].x < y /\ y < trace[j - 1].x)
        /\ j = 1 => \A y \in ComputeOps : y <= trace[j].x
    /\ pc.phase = "done" =>
          /\ Len(trace) = 7 * Cardinality(ComputeOps)
          /\ {trace[j].x : j \in 1..Len(trace)} = ComputeOps

\* an apply returned on the graph with placeholders between its computations
C9_Witness ==
    /\ pc.phase = "done"
    /\ dag = PaddedGraph
    /\ Len(trace) = 42
    /\ trace[8].op_id = 6
    /\ trace[42] = [op_id |-> 1, x |-> 1, prim |-> "tensorize"]

\* C10: an apply that has ended (returned or raised) made the same primitive
\* calls, issued the same schedule primitives, ended the same way and left
\* the same state as the previous apply with the same Params on this
\* applier, the first of which ran on the applier as constructed.
C10_SameParamsSameSchedule ==
    (pc.phase \in {"done", "error"} /\ hist[pc.p] # NoResult) =>
        hist[pc.p] = Snapshot(pc.err, trace, sch, state)

\* the third apply returned, with the Params of an earlier apply, after an
\* apply with other Params
C10_Witness ==
    /\ pc.phase = "done"
    /\ nApply = 3
    /\ hist[pc.p] # NoResult
    /\ hist[pc.p].err = ""
    /\ Len(hist[pc.p].sch) > 0
    /\ \E q \in 1..Len(ApplyParams) : q # pc.p /\ hist[q] # NoResult

\* apply is in its loop and no primitive of this call has run yet
BeforeFirstPrimitive == pc.phase = "run" /\ trace = <<>>

\* C29: when the first primitive of an apply call runs, the inlined set,
\* the reduce tile list of Main, the tile list of Output, the tile list of
\* the last operation and the bind-axis map are empty, whatever an earlier
\* apply call recorded and whether it returned or aborted.
C29_StateEmptyAtFirstPrimitive ==
    BeforeFirstPrimitive =>
        /\ state.inlined = {}
        /\ state.main_op_reduce_axis = <<>>
        /\ state.output_op_axis = <<>>
        /\ state.last_op_axis = <<>>
        /\ DOMAIN state.tensorize_iter = {}

\* a later apply is about to run its first primitive after an apply that
\* aborted with tile lists and bind axes recorded
C29_Witness ==
    /\ BeforeFirstPrimitive
    /\ nApply >= 2
    /\ \E q \in 1..Len(ApplyParams) :
          /\ hist[q] # NoResult
          /\ hist[q].err # ""
          /\ hist[q].state.output_op_axis # <<>>
          /\ DOMAIN hist[q].state.tensorize_iter # {}

\* no operation of the graph is the applier's main_op or has the main role
NoMainOperation ==
    \A x \in 0..(Len(dag.op_lst) - 1) :
        x # dag.main_op /\ dag.op_lst[x + 1].role # "main"

\* C11: on a graph none of whose operations is the Main operation, apply
\* does not return: no state in which apply has returned is reached.
C11_NoMainNeverReturns == NoMainOperation => pc.phase # "done"

\* The axis structure tiling expects is missing from a graph that has its
\* main and output operations: no reduce axis of Main is left to tile, no
\* spatial axis of Output is left to tile, or the intrinsic reserves no
\* spatial axis of Main or of Output, or no reduce axis of Main.
LacksAxisStructure ==
    /\ dag.main_op \in ComputeOps
    /\ dag.output_op \in ComputeOps
    /\ LET main == dag.op_lst[dag.main_op + 1]
           output == dag.op_lst[dag.output_op + 1]
           reduce_ids == 0..(Len(main.reduce_axis) - 1)
       IN  \/ reduce_ids \ dag.main_op_reserve_reduce_axis = {}
           \/ Len(output.axis) <= output.reserve
           \/ main.reserve = 0
           \/ output.reserve = 0
           \/ reduce_ids \cap dag.main_op_reserve_reduce_axis = {}

\* C13: on a graph whose expected axis structure is missing, apply does not
\* return a schedule: no state in which apply has returned is reached.
C13_MissingAxisStructureAborts == LacksAxisStructure => pc.phase # "done"

\* the call apply made last
LastCall == trace[Len(trace)]

\* C17: when the tiling of the main operation has run, the tile list of the
\* output operation is already recorded in the state: the third-innermost
\* level the main operation is computed at exists.
C17_OutputTiledBeforeMain ==
    (trace # <<>> /\ LastCall.prim = "tiling" /\ LastCall.x = dag.main_op)
        => OutputThirdInnermostErr(state) = ""

\* C18: when tensorize has run on an operation that has a role, the state
\* of the same apply holds a bind axis for that operation.
C18_BindAxisRecordedBeforeTensorize ==
    (trace # <<>> /\ LastCall.prim = "tensorize"
        /\ HasRole(dag.op_lst[LastCall.x + 1]))
        => LastCall.x \in DOMAIN state.tensorize_iter

\* the compute_at calls issued so far on the stage of operation x
AnchorsOf(x) ==
    {i \in 1..Len(sch) : /\ sch[i].call = "compute_at"
                         /\ sch[i].stage = "op"
                         /\ sch[i].op = x}

ReorderedAxes(x) ==
    LET calls == {i \in 1..Len(sch) : /\ sch[i].call = "reorder"
                                      /\ sch[i].stage = "op"
                                      /\ sch[i].op = x}
    IN  sch[CHOOSE i \in calls : \A j \in calls : j <= i].axes

\* C20: after the tiling of the main operation, the order handed to reorder
\* is the first two reduce tile levels, the spatial axes that are not
\* reserved, the third reduce tile level, the reserved spatial axes and the
\* reserved reduce axes; it holds every loop axis of the main operation
\* once.
C20_MainReorderOrder ==
    (trace # <<>> /\ LastCall.prim = "tiling" /\ LastCall.x = dag.main_op
        /\ pc.err = "")
        => LET main == dag.op_lst[dag.main_op + 1]
               axis == SpatialAxes(dag, dag.main_op)
               outer == Len(axis) - main.reserve
               levels == state.main_op_reduce_axis
               order == ReorderedAxes(dag.main_op)
           IN  /\ Len(levels) = reduce_tiling_parts + 1
               /\ order = levels[1] \o levels[2]
                            \o SubSeq(axis, 1, outer)
                            \o levels[3]
                            \o SubSeq(axis, outer + 1, Len(axis))
                            \o levels[4]
               /\ \A i, j \in 1..Len(order) : order[i] = order[j] => i = j
               /\ Len(order) = Len(axis)
                    + reduce_tiling_parts
                        * Cardinality((0..(Len(main.reduce_axis) - 1))
                                        \ dag.main_op_reserve_reduce_axis)
                    + Cardinality((0..(Len(main.reduce_axis) - 1))
                                        \cap dag.main_op_reserve_reduce_axis)

\* the tiling of the main operation has just returned
MainTiled ==
    /\ trace # <<>>
    /\ LastCall.prim = "tiling"
    /\ LastCall.x = dag.main_op
    /\ pc.err = ""

\* the number of axes of the main operation the intrinsic reserves
MainReservedCount ==
    LET main == dag.op_lst[dag.main_op + 1]
    IN  main.reserve
        + Cardinality((0..(Len(main.reduce_axis) - 1))
                        \cap dag.main_op_reserve_reduce_axis)

\* C21 as stated: the bind axis recorded for the main operation is the axis
\* of its loop order just outside the reserved spatial and reduce axes, and
\* is none of the reserved axes.
C21_BindAxisOutsideReserved ==
    MainTiled =>
        LET order == ReorderedAxes(dag.main_op)
        IN  /\ Len(order) > MainReservedCount
            /\ state.tensorize_iter[dag.main_op]
                 = order[Len(order) - MainReservedCount]

\* C21, amended: the bind axis recorded for the main operation is the axis
\* of its loop order that has (reserved spatial count + reserved reduce
\* count) - 1 axes after it, the outermost axis of the reserved block; when
\* both counts are 0 it is the first axis of the order.
C21_BindAxisOpensReserved ==
    MainTiled =>
        LET order == ReorderedAxes(dag.main_op)
        IN  state.tensorize_iter[dag.main_op]
              = IF MainReservedCount = 0 THEN order[1]
                ELSE order[Len(order) - MainReservedCount + 1]

\* the main operation has been tiled with reserved spatial and reserved
\* reduce axes, and its bind axis is its first reserved spatial axis
C21_Witness ==
    /\ MainTiled
    /\ dag.op_lst[dag.main_op + 1].reserve > 0
    /\ MainReservedCount > dag.op_lst[dag.main_op + 1].reserve
    /\ LET main == dag.op_lst[dag.main_op + 1]
           axis == SpatialAxes(dag, dag.main_op)
       IN  state.tensorize_iter[dag.main_op]
             = axis[Len(axis) - main.reserve + 1]

\* the tiling of the output operation has just returned
OutputTiled ==
    /\ trace # <<>>
    /\ LastCall.prim = "tiling"
    /\ LastCall.x = dag.output_op
    /\ LastCall.x # dag.main_op
    /\ pc.err = ""

\* the axes of the stage of operation x that are bound to the thread axis tag
BoundTo(x, tag) ==
    {sch[i].axes[1] : i \in {j \in 1..Len(sch) : /\ sch[j].call = "bind"
                                                 /\ sch[j].stage = "op"
                                                 /\ sch[j].op = x
                                                 /\ sch[j].tag = tag}}

\* the axis is the result of a fuse on the stage of operation x of as many
\* axes as the output operation has axes to split
IsFusedLevel(x, iv) ==
    \E i \in 1..Len(sch) :
        /\ sch[i].call = "fuse" /\ sch[i].stage = "op" /\ sch[i].op = x
        /\ Len(sch[i].axes)
             = Len(dag.op_lst[x + 1].axis) - dag.op_lst[x + 1].reserve
        /\ Fuse(x, sch[i].axes) = iv

\* the recorded tile list of the output operation has four levels: two
\* fused axes, a third level and the reserved axes
OutputFourLevels ==
    LET x == dag.output_op
        axis == SpatialAxes(dag, x)
        levels == state.output_op_axis
    IN  /\ Len(levels) = 4
        /\ Len(levels[1]) = 1 /\ IsFusedLevel(x, levels[1][1])
        /\ Len(levels[2]) = 1 /\ IsFusedLevel(x, levels[2][1])
        /\ levels[1] # levels[2]
        /\ levels[4] = SubSeq(axis, Len(axis) - dag.op_lst[x + 1].reserve + 1,
                              Len(axis))

\* C22 as stated: after the tiling of the output operation the first fused
\* axis is bound to the block dimension, the second to a virtual thread and
\* the third level to a thread dimension; the tile list has four levels.
C22_OutputBlockVthreadThread ==
    OutputTiled =>
        LET x == dag.output_op
            levels == state.output_op_axis
        IN  /\ OutputFourLevels
            /\ levels[1][1] \in BoundTo(x, "blockIdx.x")
            /\ levels[2][1] \in BoundTo(x, "vthread")
            /\ \A i \in 1..Len(levels[3]) :
                 levels[3][i] \in BoundTo(x, "threadIdx.x")
                                    \cup BoundTo(x, "threadIdx.y")

\* C22, amended: the first fused axis is bound to blockIdx.x and the second
\* to threadIdx.y; no axis is bound to a virtual thread; for a warp-scope
\* intrinsic the third level is the innermost parts of the split axes and no
\* axis is bound to threadIdx.x; for a thread-scope intrinsic the third level
\* is fused and split into warp_size parts, recorded as (outer, inner), and
\* outer is bound to threadIdx.x.  The tile list has four levels.
C22_OutputBlockThreadY ==
    OutputTiled =>
        LET x == dag.output_op
            levels == state.output_op_axis
        IN  /\ OutputFourLevels
            /\ BoundTo(x, "blockIdx.x") = {levels[1][1]}
            /\ BoundTo(x, "threadIdx.y") = {levels[2][1]}
            /\ BoundTo(x, "vthread") = {}
            /\ IF dag.instruction_scope = "thread"
               THEN /\ Len(levels[3]) = 2
                    /\ levels[3][1].ext = warp_size
                    /\ BoundTo(x, "threadIdx.x") = {levels[3][1]}
               ELSE /\ Len(levels[3])
                         = Len(dag.op_lst[x + 1].axis)
                             - dag.op_lst[x + 1].reserve
                    /\ BoundTo(x, "threadIdx.x") = {}

\* the output operation of a thread-scope intrinsic has been tiled
C22_Witness ==
    /\ OutputTiled
    /\ dag.instruction_scope = "thread"
    /\ BoundTo(dag.output_op, "threadIdx.y") # {}

\* the compute_at calls issued so far on a staging buffer
StagingAnchors ==
    {i \in 1..Len(sch) : sch[i].call = "compute_at" /\ sch[i].stage = "cache"}

\* the tiling of the main operation is in the trace before the cache_read of
\* operation x
MainTiledBeforeCacheRead(x) ==
    \E j, k \in 1..Len(trace) :
        /\ j < k
        /\ trace[j].prim = "tiling" /\ trace[j].x = dag.main_op
        /\ trace[k].prim = "cache_read" /\ trace[k].x = x

\* C23 as stated: a staging buffer is attached to the main operation at the
\* last axis of its second reduce tile level (the outermost but one), and
\* the reduce tile list of the main operation is recorded by then.
C23_StagingAtSecondLevel ==
    \A i \in StagingAnchors :
        /\ sch[i].n = dag.main_op
        /\ Len(state.main_op_reduce_axis) > 1
        /\ sch[i].axes = << state.main_op_reduce_axis[2]
                              [Len(state.main_op_reduce_axis[2])] >>
        /\ MainTiledBeforeCacheRead(sch[i].op)

\* C23, amended: a staging buffer is attached to the main operation at the
\* last axis of its outermost reduce tile level, and only after the tiling
\* of the main operation has recorded its reduce tile list in the same
\* apply.
C23_StagingAtOutermostLevel ==
    \A i \in StagingAnchors :
        /\ sch[i].n = dag.main_op
        /\ Len(state.main_op_reduce_axis) > 0
        /\ sch[i].axes = << state.main_op_reduce_axis[1]
                              [Len(state.main_op_reduce_axis[1])] >>
        /\ MainTiledBeforeCacheRead(sch[i].op)
        /\ ~HasRole(dag.op_lst[sch[i].op + 1])
        /\ dag.op_lst[sch[i].op + 1].feeds # <<>>
        /\ dag.op_lst[dag.op_lst[sch[i].op + 1].feeds[1] + 1].role = "load"

\* a staging buffer has been attached and the first two reduce tile levels
\* of the main operation end in different axes
C23_Witness ==
    /\ StagingAnchors # {}
    /\ Len(state.main_op_reduce_axis) > 1
    /\ state.main_op_reduce_axis[1] # state.main_op_reduce_axis[2]

\* the operations cache_read has given a shared staging buffer in this apply
Staged == {sch[i].op : i \in {k \in 1..Len(sch) : sch[k].call = "cache_read"}}

\* C33 as stated: within one apply no operation is both recorded in the
\* inlined set and given a shared staging buffer by cache_read.
C33_InlinedNeverStaged == state.inlined \cap Staged = {}

\* C33: cache_read does not consult the inlined set: every operation it
\* gives a shared staging buffer that has no reduce axis was recorded in the
\* inlined set by the inline stage before.
C33_StagedWithoutReduceIsInlined ==
    \A x \in Staged :
        Len(dag.op_lst[x + 1].reduce_axis) = 0 => x \in state.inlined

\* an operation recorded as inlined has been given a staging buffer that
\* cache_read scheduled to its end
C33_Witness ==
    /\ pc.err = ""
    /\ \E i \in 1..Len(sch) :
          /\ sch[i].call = "vectorize"
          /\ sch[i].stage = "cache"
          /\ sch[i].op \in state.inlined \cap Staged

----------------------------------------------------------------------------
(* Properties of the functions, verified under SpecCalls.                  *)

\* C12: auto_schedule runs to its end exactly when the graph has exactly one
\* operation with a reduce axis, that operation is the main operation, and
\* the target is "cuda"; otherwise it raises.
C12_AutoScheduleStructuralCheck ==
    pure.fn = "auto_schedule" =>
        LET a == pure.arg
            reducing == {x \in 0..(Len(a.reduce_axis) - 1) :
                            a.reduce_axis[x + 1] > 0}
        IN  (pure.ret = "") <=>
                /\ Len(a.main_op_map) > 0
                /\ reducing = {a.main_op_map[Len(a.main_op_map)]}
                /\ a.target = "cuda"

C15_ParamsRoundTrip ==
    pure.fn \in {"record_from_json", "Params.from_json"} =>
        /\ pure.ret.vectorize = pure.arg.vectorize
        /\ pure.ret.spatial_factors = pure.arg.spatial_factors
        /\ pure.ret.reduce_factors = pure.arg.reduce_factors
        /\ pure.ret.last_factors = pure.arg.last_factors
        /\ pure.ret.output_unroll_step = pure.arg.output_unroll_step
        /\ pure.ret.last_unroll_step = pure.arg.last_unroll_step
        /\ ParamsStr(pure.ret) = ParamsStr(pure.arg)

\* from_json has filled an empty Params from a Params whose fields are all
\* set and whose two unroll steps differ
C15_Witness ==
    /\ pure.fn = "Params.from_json"
    /\ pure.arg.vectorize # <<>>
    /\ pure.arg.spatial_factors # <<>>
    /\ pure.arg.reduce_factors # <<>>
    /\ pure.arg.last_factors # <<>>
    /\ pure.arg.output_unroll_step # <<>>
    /\ pure.arg.last_unroll_step # <<>>
    /\ pure.arg.output_unroll_step # pure.arg.last_unroll_step
    /\ pure.ret # empty_params

\* C16: for each of the three generators and every value x its choices
\* stand for, map_from_hidden(map_to_hidden(x)) is x.
C16_HiddenRoundTrip ==
    pure.fn = "map_from_hidden" => pure.ret.value = pure.arg.x

\* a factorization into three parts that differs from its reverse has been
\* mapped to its indices and back
C16_Witness ==
    /\ pure.fn = "map_from_hidden"
    /\ pure.arg.gen[1] = "SplitFactorGenerator"
    /\ pure.arg.gen[3] = 3
    /\ pure.arg.x[1] # pure.arg.x[3]
    /\ pure.ret.hidden # pure.arg.x

\* C24: the parts the split loop of tiling records for an axis of extent e
\* and a factorization (f0, f1, f2) of e are the three nested loops from the
\* outermost to the innermost, of extents f0, f1 and f2; the extents
\* multiply to e.
C24_SplitPartsFollowFactors ==
    pure.fn = "tiling.split" =>
        LET part == pure.ret.part
            factors == pure.arg.factors
        IN  /\ Len(part) = Len(factors)
            /\ \A i \in 1..Len(part) : part[i].ext = factors[i]
            /\ ProdSeq([i \in 1..Len(part) |-> part[i].ext]) = pure.arg.extent
            /\ [i \in 1..Len(part) |-> part[i].name]
                 = <<"s0.o.o", "s0.o.i", "s0.i">>

\* an axis has been split by three factors, the last two of them different
\* and the first above 1
C24_Witness ==
    /\ pure.fn = "tiling.split"
    /\ pure.arg.factors[1] > 1
    /\ pure.arg.factors[2] # pure.arg.factors[3]
    /\ Len(pure.ret.sch) = 2

\* C25: init_param_generator builds one 3-way split generator for each
\* reduce axis of the main operation that is not reserved, one 3-way split
\* generator for each spatial axis of the output operation that is not
\* reserved, whatever the reserved count, and one 2-way split generator for
\* the product of the extents of the last operation.
C25_OneSplitterPerSplitAxis ==
    pure.fn = "init_param_generator" =>
        LET g == pure.arg
            main_op == g.op_lst[g.main_op + 1]
            output_op == g.op_lst[g.output_op + 1]
            split_reduce == {i \in 1..Len(main_op.reduce_axis) :
                                (i - 1) \notin g.main_op_reserve_reduce_axis}
            outer == Len(output_op.axis) - output_op.reserve
            built_reduce_splits == pure.ret[1]
            built_spatial_splits == pure.ret[2]
            built_last_splits == pure.ret[3]
        IN  /\ Len(built_reduce_splits) = Cardinality(split_reduce)
            /\ \A k \in 1..Len(built_reduce_splits) : built_reduce_splits[k].parts = 3
            /\ built_spatial_splits
                 = [i \in 1..outer |-> [extent |-> output_op.axis[i],
                                        parts |-> 3]]
            /\ built_last_splits
                 = << [extent |-> ProdSeq(g.op_lst[Len(g.op_lst)].axis),
                       parts |-> 2] >>

\* C26: after the constructor's walk over the capsules exactly one operation
\* carries the Main role and it is main_op, exactly one carries the Output
\* role and it is output_op, and the walk completes, for every dependency
\* structure of the capsules.
C26_OneMainOneOutput ==
    pure.fn = "operation_role" =>
        LET operation_role == pure.ret.operation_role
            tagged(role) == {pure.arg[i].op : i \in
                                {k \in DOMAIN operation_role :
                                    operation_role[k] = role}}
        IN  /\ pure.ret.error = ""
            /\ tagged("main") = {pure.ret.main_op}
            /\ tagged("output") = {pure.ret.output_op}

\* C28: for every multi-index and every direction, move_towards_direction
\* returns a multi-index whose components sum to sum_val, and valid rejects
\* it exactly when one of its components is outside 0..sum_val.
C28_MoveKeepsCrossSum ==
    pure.fn = "move_towards_direction" =>
        LET sum_val ==
                SplitFactorGenerator(pure.arg.extent, pure.arg.parts).sum_val
            des == pure.ret.des
        IN  /\ SumSeq(des) = sum_val
            /\ pure.ret.valid
                  <=> (\A i \in 1..Len(des) : des[i] \in 0..sum_val)

\* a move in a direction that is not zero, from a multi-index whose
\* cross-sum is sum_val to a different one that valid accepts
C28_Witness ==
    /\ pure.fn = "move_towards_direction"
    /\ \E i \in 1..Len(pure.arg.d) : pure.arg.d[i] # 0
    /\ SumSeq(pure.arg.init) = SumSeq(pure.ret.des)
    /\ pure.ret.des # pure.arg.init
    /\ pure.ret.valid

============================================================================
